---- MODULE Spec2Model ----
(***************************************************************************)
(* vcast: the persisted Document store (VcastState), its mutation API, the *)
(* change fan-out, the file watcher, and the server/client transport.      *)
(*                                                                         *)
(* Every `await` of the source is a suspension point: a mutation call is   *)
(* split into the synchronous part that runs when it is called (the        *)
(* mutator and the start of save), the continuation after ensureDir (which *)
(* serialises this.data and issues the write) and the continuation after   *)
(* writeFile (emit and return).  Steps of other calls, and of the watcher's*)
(* load, may run between them.                                             *)
(*                                                                         *)
(* Volumes are kept in tenths (10 is the source's 1, 3 is 0.3).            *)
(***************************************************************************)
EXTENDS Integers, Sequences, FiniteSets, TLC

\* ------------------------------------------------------------------ bounds
\* Date.now() is a logical clock that ticks once per mutation call; the run
\* makes at most MaxCalls mutation calls.
MaxCalls == 2
\* fs.watch callbacks whose load() has not finished yet.
MaxPendingLoads == 1
\* pages (browser tabs) opened during the run.
MaxPages == 1
\* frames a connection holds before a client's ping is answered.
MaxFrames == 2

\* ------------------------------------------------------------------ values
Ids == {"a", "b"}
\* An absent (undefined) property is a key that is not in the record's DOMAIN.
\* A null property is kept the same way: `??` and `||` treat null and undefined
\* alike, and load() reads a null that JSON.stringify wrote like a missing key.
NoFile == [kind |-> "missing"]
Garbage == [kind |-> "garbage"]
None == [kind |-> "none"]
EmptyMap == [k \in {} |-> None]

DefaultVolume == 10

\* obj.k ?? d
Opt(obj, k, d) == IF k \in DOMAIN obj THEN obj[k] ELSE d

\* { k: partial.k ?? existing.k } for each k of keys; a key undefined in both
\* stays undefined
MergeRec(keys, partial, existing) ==
  [k \in {x \in keys : x \in (DOMAIN partial) \cup (DOMAIN existing)} |->
     IF k \in DOMAIN partial THEN partial[k] ELSE existing[k]]

Put(m, k, v) == [x \in (DOMAIN m) \cup {k} |-> IF x = k THEN v ELSE m[x]]
Delete(m, k) == [x \in (DOMAIN m) \ {k} |-> m[x]]

RECURSIVE SelectSeqBy(_, _)
\* Array.prototype.filter with the predicate "id is in keep"
SelectSeqBy(s, keep) ==
  IF s = <<>> THEN <<>>
  ELSE IF Head(s).id \in keep
       THEN <<Head(s)>> \o SelectSeqBy(Tail(s), keep)
       ELSE SelectSeqBy(Tail(s), keep)

\* Array.prototype.findIndex(s => s.id === id), 1-based, 0 for -1
FindIndex(s, id) ==
  IF \E i \in 1..Len(s) : s[i].id = id
  THEN CHOOSE i \in 1..Len(s) : s[i].id = id /\ \A j \in 1..(i - 1) : s[j].id # id
  ELSE 0

IdsOf(s) == {s[i].id : i \in 1..Len(s)}

\* ------------------------------------------------------------------ DEFAULT_CONFIG
InitialDefaults ==
  [version |-> 1,
   sources |-> <<>>,
   layout |-> [rows |-> 2, columns |-> 2],
   audio |-> EmptyMap,
   windows |-> EmptyMap,
   textOverlay |-> [text |-> "", position |-> "top", scrolling |-> FALSE],
   showIds |-> TRUE,
   youtubeNoCookie |-> TRUE,
   hideCursor |-> FALSE]

\* The fields of a Document that hold a mutable object the mutators change in
\* place (push, index assignment, property assignment, delete).
InPlaceFields == {"sources", "audio", "windows"}

\* ------------------------------------------------------------------ state
VARIABLES
  phase,           \* "new" (constructed) | "ready" (initSkeleton has returned)
  data,            \* VcastState.data
  DEFAULT_CONFIG,  \* the module-level constant object (its nested objects are mutable)
  shared,          \* the fields of data that are the very object DEFAULT_CONFIG holds
  listeners,       \* VcastState.listeners, a Set in insertion order
  watcher,         \* VcastState.watcher is set
  file,            \* the content of configPath on disk
  calls,           \* the mutation calls in flight, in the order they were applied
  loads,           \* watch callbacks whose load() is awaiting readFile
  now,             \* Date.now(), also the number of mutation calls made
  ev,              \* what the last step did (call finished, listeners notified)
  ideal,           \* history: the Document the mutators give when applied one after
                   \* the other in call order; None once a save() has thrown
  clients,         \* startServer's `clients`: the sockets of the open connections
  wire,            \* per page, the WebSocket frames sent to it and not yet received
  wsRef,           \* per page, its socket: "none" | "connecting" | "open" | "closed",
                   \* or "broken": the connection is lost and no close handler
                   \* has run yet
  state,           \* per page, the React state (None is null)
  requests,        \* per page, GET /api/state requests the server has not answered
  responses,       \* per page, the bodies of answers the page has not read yet
  inbox,           \* history: per probe listener, the rounds of emit() that called it
                   \* (the number of the call that completed, 0 for a reload)
  handed,          \* a snapshot a caller or a listener holds: doc, its content;
                   \* shares, the fields whose object is the very object this.data
                   \* holds; edited, the holder has written to it
  stray,           \* per page, the socket a component that was unmounted left
                   \* behind: "none" | "closed" (its retry timer is pending) |
                   \* "connecting"
  other            \* a second VcastState of the same process, on a config path of
                   \* its own: phase; own, its data object (a field in `shared`
                   \* holds a reference, whose content is DEFAULT_CONFIG's); file,
                   \* the content of its configPath; seen, the snapshots its
                   \* listener was called with

storeVars == <<phase, data, DEFAULT_CONFIG, shared, listeners, watcher>>
netVars == <<clients, wire, wsRef, state, requests, responses>>
vars == <<phase, data, DEFAULT_CONFIG, shared, listeners, watcher, file, calls, loads, now,
          ev, ideal, clients, wire, wsRef, state, requests, responses, inbox, handed,
          stray, other>>


\* ------------------------------------------------------------------ JSON
\* JSON.stringify(this.data, null, 2): a property whose value is undefined is
\* not written, which is what an absent key already says.
JSONstringify(d) == [kind |-> "json", value |-> d]
Parseable(text) == text.kind = "json"
JSONparse(text) == text.value

\* load(), lines 77-88: the object assigned to this.data for a parsed file
LoadMerge(parsed) ==
  [version |-> Opt(parsed, "version", DEFAULT_CONFIG.version),
   sources |-> Opt(parsed, "sources", <<>>),
   layout |-> Opt(parsed, "layout", DEFAULT_CONFIG.layout),
   audio |-> Opt(parsed, "audio", EmptyMap),
   windows |-> Opt(parsed, "windows", EmptyMap),
   textOverlay |-> Opt(parsed, "textOverlay", DEFAULT_CONFIG.textOverlay),
   showIds |-> Opt(parsed, "showIds", DEFAULT_CONFIG.showIds),
   youtubeNoCookie |-> Opt(parsed, "youtubeNoCookie", DEFAULT_CONFIG.youtubeNoCookie),
   hideCursor |-> Opt(parsed, "hideCursor", DEFAULT_CONFIG.hideCursor)]

\* ------------------------------------------------------------------ mutators
\* The closure each operation hands to update(), as a function of the Document.
\* addSource, line 134: { ...source, addedAt: Date.now() }
Payload(source, t) ==
  [id |-> source.id, platform |-> source.platform, embedUrl |-> source.embedUrl,
   originalUrl |-> source.originalUrl, addedAt |-> t]

\* mutant: the existing index is ignored and the payload is always pushed
addSourceMutAlwaysPush(d, payload) ==
  [d EXCEPT
     !.sources = Append(@, payload),
     !.audio = IF payload.id \in DOMAIN @
               THEN @
               ELSE Put(@, payload.id, [volume |-> DefaultVolume, muted |-> FALSE])]

\* mutant: an existing entry is dropped and the payload goes to the end
addSourceMutMoveToEnd(d, payload) ==
  [d EXCEPT
     !.sources = Append(SelectSeqBy(@, IdsOf(@) \ {payload.id}), payload),
     !.audio = IF payload.id \in DOMAIN @
               THEN @
               ELSE Put(@, payload.id, [volume |-> DefaultVolume, muted |-> FALSE])]

addSourceMut(d, payload) ==
  LET existingIdx == FindIndex(d.sources, payload.id)
  IN [d EXCEPT
        !.sources = IF existingIdx >= 1
                    THEN [@ EXCEPT ![existingIdx] = payload]
                    ELSE Append(@, payload),
        !.audio = IF payload.id \in DOMAIN @
                  THEN @
                  ELSE Put(@, payload.id, [volume |-> DefaultVolume, muted |-> FALSE])]

removeSourceMut(d, id) ==
  [d EXCEPT
     !.sources = SelectSeqBy(@, IdsOf(@) \ {id}),
     !.audio = Delete(@, id),
     !.windows = Delete(@, id)]

\* mutant: `||` in place of `??`, so that 0 and false do not overwrite
updateAudioMutFalsy(d, id, audio) ==
  LET existing == Opt(d.audio, id, [volume |-> DefaultVolume, muted |-> FALSE])
  IN [d EXCEPT !.audio = Put(@, id,
        [volume |-> IF "volume" \in DOMAIN audio /\ audio.volume # 0
                    THEN audio.volume ELSE existing.volume,
         muted |-> IF "muted" \in DOMAIN audio /\ audio.muted
                   THEN TRUE ELSE existing.muted])]

\* mutant: a new audio object with the one entry takes the place of data.audio
updateAudioMutReplace(d, id, audio) ==
  LET existing == Opt(d.audio, id, [volume |-> DefaultVolume, muted |-> FALSE])
  IN [d EXCEPT !.audio = (id :> MergeRec({"volume", "muted"}, audio, existing))]

updateAudioMut(d, id, audio) ==
  LET existing == Opt(d.audio, id, [volume |-> DefaultVolume, muted |-> FALSE])
  IN [d EXCEPT !.audio = Put(@, id, MergeRec({"volume", "muted"}, audio, existing))]

updateWindowMut(d, id, window) ==
  LET existing == Opt(d.windows, id, [x |-> 0, y |-> 0, width |-> 1, height |-> 1])
  IN [d EXCEPT
        !.windows = Put(@, id, MergeRec({"x", "y", "width", "height"}, window, existing))]

\* updateLayout, lines 157-162: a new object takes the place of data.layout
updateLayoutMut(d, layout) ==
  [d EXCEPT !.layout = MergeRec({"rows", "columns"}, layout, @)]

\* updateTextOverlay, lines 204-210
updateTextOverlayMut(d, overlay) ==
  [d EXCEPT !.textOverlay = MergeRec({"text", "position", "scrolling"}, overlay, @)]

\* updateShowIds, lines 214-216: this.data.showIds = showIds.  flag holds the
\* argument under "value"; a null or undefined argument is a flag with no value
updateShowIdsMut(d, flag) ==
  IF "value" \in DOMAIN flag THEN Put(d, "showIds", flag.value) ELSE Delete(d, "showIds")

\* updateYoutubeNoCookie, lines 219-223: this.data.youtubeNoCookie = youtubeNoCookie
updateYoutubeNoCookieMut(d, flag) ==
  IF "value" \in DOMAIN flag THEN Put(d, "youtubeNoCookie", flag.value)
  ELSE Delete(d, "youtubeNoCookie")

\* updateHideCursor, lines 225-229: this.data.hideCursor = hideCursor
updateHideCursorMut(d, flag) ==
  IF "value" \in DOMAIN flag THEN Put(d, "hideCursor", flag.value)
  ELSE Delete(d, "hideCursor")

\* order.indexOf(id): 0-based, -1 when absent
IndexOf(order, id) ==
  IF \E i \in 1..Len(order) : order[i] = id
  THEN (CHOOSE i \in 1..Len(order) : order[i] = id /\ \A j \in 1..(i - 1) : order[j] # id) - 1
  ELSE -1

\* the comparator of reorder(), lines 192-199
ReorderCmp(order, a, b) ==
  LET ai == IndexOf(order, a.id)
      bi == IndexOf(order, b.id)
  IN IF ai = -1 /\ bi = -1 THEN 0
     ELSE IF ai = -1 THEN 1
     ELSE IF bi = -1 THEN -1
     ELSE ai - bi

\* x placed into a sorted sequence behind every element that does not compare
\* greater than it (Array.prototype.sort is stable)
InsertSorted(order, sorted, x) ==
  LET greater == {j \in 1..Len(sorted) :
                    \A k \in j..Len(sorted) : ReorderCmp(order, sorted[k], x) > 0}
      at == IF greater = {} THEN Len(sorted) + 1
            ELSE CHOOSE j \in greater : \A k \in greater : j <= k
  IN SubSeq(sorted, 1, at - 1) \o <<x>> \o SubSeq(sorted, at, Len(sorted))

RECURSIVE StableSort(_, _, _)
StableSort(order, s, acc) ==
  IF s = <<>> THEN acc
  ELSE StableSort(order, Tail(s), InsertSorted(order, acc, Head(s)))

\* mutant: the sources that the order does not list are dropped
reorderMutListedOnly(d, order) ==
  [d EXCEPT !.sources = SelectSeqBy(StableSort(order, @, <<>>),
                                    {order[i] : i \in 1..Len(order)})]

reorderMut(d, order) == [d EXCEPT !.sources = StableSort(order, @, <<>>)]

\* ------------------------------------------------------------------ inputs
\* What parseStream returns: two URLs of one video give the same id.
ParsedSources ==
  {[id |-> "a", platform |-> "youtube", embedUrl |-> "embed", originalUrl |-> u] :
     u \in {"short", "watch"}}
  \cup {[id |-> "b", platform |-> "twitch", embedUrl |-> "player", originalUrl |-> "channel"]}
AudioCalls == {[id |-> "b", audio |-> [volume |-> 3]]}
WindowCalls == {[id |-> "a", window |-> [x |-> 1]]}
Orders == {<<"b", "a">>}
RemovedIds == {"a"}
\* the listener startServer subscribes (line 301), which catches what send throws
Broadcast == "broadcast"
\* listeners a user of the class subscribes; a call of "l2" may throw
Probes == {"l1", "l2"}
MayThrow == {"l2"}
\* the two pages of the web client
Pages == {"view", "manage"}
\* the event messages on which the viewer fetches the state again
RefetchTypes == {"added", "removed", "layout"}

\* a listener that keeps the snapshot emit() hands it
Keeper == "keeper"
\* the fields of a Document that hold an object or an array
ObjectFields == {"sources", "layout", "audio", "windows", "textOverlay"}
\* what a holder does to its snapshot: sources.push(...), layout.rows = 9,
\* delete of every key of audio
SnapshotEdits == {"push", "rows", "clear"}

\* ------------------------------------------------------------------ Init
\* kind: what ran ("apply", "saved", "saveFailed", "load", "loadFailed");
\* outcome: how the call's promise settled, if the step settled one; req: the
\* request a handler took up in this step; reply: the HTTP response a handler
\* returned in this step
NoEvent == [kind |-> "none", outcome |-> "", call |-> None, notified |-> <<>>,
            threw |-> FALSE, req |-> None, reply |-> None]

NoSnapshot == [doc |-> None, shares |-> {}, edited |-> FALSE]

\* no second instance has been constructed
NoOther == [phase |-> "none", own |-> None, shared |-> {}, file |-> NoFile, seen |-> <<>>]

\* Documents an earlier run of the program left in the file
SavedDocuments ==
  {addSourceMut(InitialDefaults, [id |-> "a", platform |-> "youtube", embedUrl |-> "embed",
                                  originalUrl |-> "short", addedAt |-> 0])}

Init ==
  /\ phase = "new"
  /\ data = InitialDefaults
  /\ DEFAULT_CONFIG = InitialDefaults
  /\ shared = InPlaceFields
  /\ listeners = <<>>
  /\ watcher = FALSE
  /\ file \in {NoFile, Garbage} \cup {JSONstringify(d) : d \in SavedDocuments}
  /\ calls = <<>>
  /\ loads = 0
  /\ now = 0
  /\ ev = NoEvent
  /\ ideal = InitialDefaults
  /\ clients = {}
  /\ wire = [p \in Pages |-> <<>>]
  /\ wsRef = [p \in Pages |-> "none"]
  /\ state = [p \in Pages |-> None]
  /\ requests = [p \in Pages |-> 0]
  /\ responses = [p \in Pages |-> {}]
  /\ inbox = [l \in Probes |-> <<>>]
  /\ handed = NoSnapshot
  /\ other = NoOther
  /\ stray = [p \in Pages |-> "none"]

\* ------------------------------------------------------------------ emit
\* emit(), lines 127-130: the listeners are called in insertion order with one
\* snapshot; a listener that throws ends the loop and the exception leaves emit.
\* mutant: the listeners are called from the last subscribed to the first
EmitOutcomesReversed ==
  {[notified |-> listeners, threw |-> FALSE]} \cup
  {[notified |-> SubSeq(listeners, i, Len(listeners)), threw |-> TRUE] :
     i \in {j \in 1..Len(listeners) : listeners[j] \in MayThrow}}

EmitOutcomes ==
  {[notified |-> listeners, threw |-> FALSE]} \cup
  {[notified |-> SubSeq(listeners, 1, i), threw |-> TRUE] :
     i \in {j \in 1..Len(listeners) : listeners[j] \in MayThrow}}

\* snapshot(), lines 112-114
snapshot == JSONparse(JSONstringify(data))

\* broadcast(payload), lines 290-299: one frame to every socket in clients; the
\* send to a socket whose connection is lost throws or drops the frame, the
\* catch clause logs, and the loop goes on
broadcast(w, payload) ==
  [p \in Pages |-> IF p \in clients /\ wsRef[p] # "broken"
                   THEN Append(w[p], payload) ELSE w[p]]

\* mutant: startServer subscribes a listener that sends nothing
FanoutSilent(w, notified, cfg) == w

\* what the listeners called by one emit() put on the wire: startServer's
\* listener broadcasts the snapshot as a `state` message (line 301)
Fanout(w, notified, cfg) ==
  IF \E i \in 1..Len(notified) : notified[i] = Broadcast
  THEN broadcast(w, [type |-> "state", data |-> cfg])
  ELSE w

\* the probe listeners one emit() called take the round into their inbox
Deliver(box, notified, round) ==
  [l \in Probes |-> IF \E i \in 1..Len(notified) : notified[i] = l
                    THEN Append(box[l], round) ELSE box[l]]

\* the token onChange returned is called: listeners.delete(fn), line 118
Unsubscribe(l) ==
  /\ \E i \in 1..Len(listeners) : listeners[i] = l
  /\ listeners' = SelectSeq(listeners, LAMBDA x : x # l)
  /\ ev' = NoEvent
  /\ UNCHANGED <<phase, data, DEFAULT_CONFIG, shared, watcher, file, calls, loads, now,
                 ideal, inbox>>
  /\ UNCHANGED netVars
  /\ UNCHANGED other
  /\ UNCHANGED stray
  /\ UNCHANGED handed

\* mutant: snapshot() returns { ...this.data }, whose nested objects are the
\* store's own
SnapshotSharesShallow == ObjectFields

\* snapshot() builds its result with JSON.parse: no object of the result is an
\* object of this.data
SnapshotShares == {}

\* the snapshot one emit() handed out, should Keeper be among the listeners
\* called; otherwise the held one
Kept(held, notified, cfg) ==
  IF \E i \in 1..Len(notified) : notified[i] = Keeper
  THEN [doc |-> cfg, shares |-> SnapshotShares, edited |-> FALSE]
  ELSE held

\* a mutator has run: an object the held snapshot shares with this.data shows
\* what was written into it; a field the mutator gave a new object is shared
\* no longer
StoreWrote(held, d, replaced) ==
  IF held.shares = {} THEN held
  ELSE [held EXCEPT
          !.shares = @ \ replaced,
          !.doc = [k \in DOMAIN held.doc |->
                     IF k \in held.shares \ replaced /\ k \in DOMAIN d
                     THEN d[k] ELSE held.doc[k]]]

\* a caller takes snapshot(), lines 112-114
TakeSnapshot ==
  /\ phase = "ready"
  /\ UNCHANGED other
  /\ UNCHANGED stray
  /\ handed' = [doc |-> snapshot, shares |-> SnapshotShares, edited |-> FALSE]
  /\ ev' = NoEvent
  /\ UNCHANGED <<storeVars, file, calls, loads, now, ideal, inbox>>
  /\ UNCHANGED netVars

EditSnapshot(doc, e) ==
  CASE e = "push" -> [doc EXCEPT !.sources = Append(@, [id |-> "z"])]
    [] e = "rows" -> [doc EXCEPT !.layout = Put(@, "rows", 9)]
    [] e = "clear" -> [doc EXCEPT !.audio = EmptyMap]

\* the holder writes into the objects of its snapshot; an object that is also
\* this.data's (and DEFAULT_CONFIG's) shows the write there too
ModifySnapshot(e) ==
  /\ handed.doc # None
  /\ ~handed.edited
  /\ UNCHANGED other
  /\ UNCHANGED stray
  /\ handed' = [handed EXCEPT !.doc = EditSnapshot(@, e), !.edited = TRUE]
  /\ data' = [k \in DOMAIN data |->
                IF k \in handed.shares THEN handed'.doc[k] ELSE data[k]]
  /\ DEFAULT_CONFIG' = [k \in DOMAIN DEFAULT_CONFIG |->
                          IF k \in handed.shares \cap shared
                          THEN handed'.doc[k] ELSE DEFAULT_CONFIG[k]]
  /\ ev' = [NoEvent EXCEPT !.kind = "modifySnapshot"]
  /\ UNCHANGED <<phase, shared, listeners, watcher, file, calls, loads, now, ideal, inbox>>
  /\ UNCHANGED netVars

\* a modification of the file reaches the watcher, whose callback starts load()
Watched == IF watcher /\ loads < MaxPendingLoads THEN loads + 1 ELSE loads

\* data = { ...DEFAULT_CONFIG }: the nested objects are DEFAULT_CONFIG's own
ShallowDefaults == DEFAULT_CONFIG

\* ------------------------------------------------------------------ store
\* initSkeleton(), lines 63-71, as the program runs it: before anything else,
\* with no listener yet.
InitSkeleton ==
  /\ phase = "new"
  /\ phase' = "ready"
  /\ IF file = NoFile
     THEN /\ data' = ShallowDefaults
          /\ shared' = InPlaceFields
          /\ file' = JSONstringify(ShallowDefaults)
     ELSE IF Parseable(file)
     THEN /\ data' = LoadMerge(JSONparse(file))
          /\ shared' = {}
          /\ file' = file
     ELSE /\ data' = ShallowDefaults
          /\ shared' = InPlaceFields
          /\ file' = file
  /\ ev' = NoEvent
  /\ ideal' = data'
  /\ UNCHANGED <<DEFAULT_CONFIG, listeners, watcher, calls, loads, now>>
  /\ UNCHANGED netVars
  /\ UNCHANGED inbox
  /\ UNCHANGED other
  /\ UNCHANGED stray
  /\ handed' = [handed EXCEPT !.shares = {}]

\* watchExternal(), lines 101-110
WatchExternal ==
  /\ phase = "ready"
  /\ now = 0
  /\ ~watcher
  /\ watcher' = TRUE
  /\ ev' = NoEvent
  /\ UNCHANGED <<phase, data, DEFAULT_CONFIG, shared, listeners, file, calls, loads, now,
                 ideal>>
  /\ UNCHANGED netVars
  /\ UNCHANGED inbox
  /\ UNCHANGED other
  /\ UNCHANGED stray
  /\ UNCHANGED handed

\* onChange(fn), lines 116-119
OnChange(l) ==
  /\ phase = "ready"
  /\ now = 0
  /\ \A i \in 1..Len(listeners) : listeners[i] # l
  /\ listeners' = Append(listeners, l)
  /\ ev' = NoEvent
  /\ UNCHANGED <<phase, data, DEFAULT_CONFIG, shared, watcher, file, calls, loads, now,
                 ideal>>
  /\ UNCHANGED netVars
  /\ UNCHANGED inbox
  /\ UNCHANGED other
  /\ UNCHANGED stray
  /\ UNCHANGED handed

\* the mutator of a call, by operation
Mutate(d, call) ==
  CASE call.op = "addSource" -> addSourceMut(d, call.arg)
    [] call.op = "removeSource" -> removeSourceMut(d, call.id)
    [] call.op = "updateAudio" -> updateAudioMut(d, call.id, call.arg)
    [] call.op = "updateWindow" -> updateWindowMut(d, call.id, call.arg)
    [] call.op = "reorder" -> reorderMut(d, call.arg)
    [] call.op = "updateLayout" -> updateLayoutMut(d, call.arg)
    [] call.op = "updateTextOverlay" -> updateTextOverlayMut(d, call.arg)
    [] call.op = "updateShowIds" -> updateShowIdsMut(d, call.arg)
    [] call.op = "updateYoutubeNoCookie" -> updateYoutubeNoCookieMut(d, call.arg)
    [] call.op = "updateHideCursor" -> updateHideCursorMut(d, call.arg)

\* update(mutator) up to its first suspension: mutator() has run and save() is
\* awaiting ensureDir.  replaced: the in-place fields the mutator assigned a
\* new object to (filter, sort), which stop being DEFAULT_CONFIG's.
Apply(call, replaced) ==
  /\ phase = "ready"
  /\ now < MaxCalls
  /\ now' = now + 1
  /\ data' = Mutate(data, call)
  /\ shared' = shared \ replaced
  /\ DEFAULT_CONFIG' =
       [k \in DOMAIN DEFAULT_CONFIG |->
          IF k \in shared \ replaced THEN data'[k] ELSE DEFAULT_CONFIG[k]]
  /\ calls' = Append(calls, call @@ [pc |-> "ensureDir", text |-> None, applied |-> data',
                                      n |-> now + 1])
  /\ ev' = [NoEvent EXCEPT !.kind = "apply", !.call = call, !.req = call.req]
  /\ ideal' = IF ideal = None THEN None ELSE Mutate(ideal, call)
  /\ UNCHANGED <<phase, listeners, watcher, file, loads>>
  /\ UNCHANGED netVars
  /\ UNCHANGED inbox
  /\ UNCHANGED other
  /\ UNCHANGED stray
  /\ handed' = StoreWrote(handed, data', replaced)

\* event: the message the caller broadcasts once the call has returned ("" when
\* it broadcasts none: /mcp, the CLI, a direct call of the method); req: the
\* request whose handler awaits the call (None when no handler does)
AddSource(source) ==
  Apply([op |-> "addSource", id |-> source.id, arg |-> Payload(source, now + 1),
         event |-> "", req |-> None], {})

RemoveSource(id) ==
  Apply([op |-> "removeSource", id |-> id, arg |-> None, event |-> "", req |-> None], {"sources"})

UpdateAudio(id, audio) ==
  Apply([op |-> "updateAudio", id |-> id, arg |-> audio, event |-> "", req |-> None], {})

UpdateWindow(id, window) ==
  Apply([op |-> "updateWindow", id |-> id, arg |-> window, event |-> "", req |-> None], {})

Reorder(order) ==
  Apply([op |-> "reorder", id |-> "", arg |-> order, event |-> "", req |-> None], {"sources"})

UpdateLayout(layout) ==
  Apply([op |-> "updateLayout", id |-> "", arg |-> layout, event |-> "", req |-> None], {"layout"})

UpdateTextOverlay(overlay) ==
  Apply([op |-> "updateTextOverlay", id |-> "", arg |-> overlay, event |-> "", req |-> None],
        {"textOverlay"})

UpdateShowIds(flag) ==
  Apply([op |-> "updateShowIds", id |-> "", arg |-> flag, event |-> "", req |-> None], {})

UpdateYoutubeNoCookie(flag) ==
  Apply([op |-> "updateYoutubeNoCookie", id |-> "", arg |-> flag, event |-> "", req |-> None],
        {})

UpdateHideCursor(flag) ==
  Apply([op |-> "updateHideCursor", id |-> "", arg |-> flag, event |-> "", req |-> None], {})

\* POST /api/add (lines 327-338) and the WebSocket message {type: "add", url}
\* (lines 449-452): addSource, then broadcast of `added` once the call has
\* returned
ApiAdd(source) ==
  Apply([op |-> "addSource", id |-> source.id, arg |-> Payload(source, now + 1),
         event |-> "added", req |-> None], {})

\* the slice of state a handler reads once its call has returned (lines 335-411,
\* mcp.ts lines 24-46), under "value"; no value where the expression is undefined
Result(call, d) ==
  CASE call.op = "addSource" -> [value |-> call.arg]
    [] call.op = "removeSource" -> [value |-> [ok |-> TRUE]]
    [] call.op = "updateLayout" -> [value |-> d.layout]
    [] call.op = "updateAudio" ->
         IF call.id \in DOMAIN d.audio THEN [value |-> d.audio[call.id]] ELSE EmptyMap
    [] call.op = "updateWindow" ->
         IF call.id \in DOMAIN d.windows THEN [value |-> d.windows[call.id]] ELSE EmptyMap
    [] call.op = "reorder" -> [value |-> [ok |-> TRUE]]
    [] call.op = "updateTextOverlay" -> [value |-> d.textOverlay]
    [] call.op = "updateShowIds" ->
         [value |-> IF "showIds" \in DOMAIN d THEN [showIds |-> d.showIds] ELSE EmptyMap]

\* JSON.stringify({ ...fields, [k]: result }): k is left out when result is
\* undefined
WithField(fields, k, result) ==
  IF "value" \in DOMAIN result THEN fields @@ (k :> result.value) ELSE fields

\* the message a REST or WebSocket handler broadcasts after its call (lines
\* 334-410, 452-484): /api/reorder and `reorder` send the state a second time
EventMessage(call, d) ==
  CASE call.event = "added" -> [type |-> "added", data |-> call.arg]
    [] call.event = "removed" -> [type |-> "removed", id |-> call.id]
    [] call.event \in {"audio", "window"} ->
         WithField([type |-> call.event, id |-> call.id], "data", Result(call, d))
    [] call.event = "state" -> [type |-> "state", data |-> JSONparse(JSONstringify(d))]
    [] call.event = "showIds" ->
         IF "showIds" \in DOMAIN d THEN [type |-> "showIds", data |-> d.showIds]
         ELSE [type |-> "showIds"]
    [] OTHER -> [type |-> call.event, data |-> d[call.event]]

\* respond(result, error), mcp.ts lines 9-14: JSON.stringify leaves out an id or
\* a result that is undefined
respond(body, result, error) ==
  LET head == IF "id" \in DOMAIN body THEN [id |-> body.id] ELSE EmptyMap
  IN IF error # "" THEN head @@ [error |-> error] ELSE WithField(head, "result", result)

\* the HTTP response of the handler that awaited a call.  /mcp and /api/add
\* catch what the call throws and answer 400; the other REST handlers have no
\* try block, the exception leaves fetch and the server answers 500
Reply(call, threw) ==
  IF call.req = None \/ call.req.via = "ws" THEN None
  ELSE IF call.req.via = "mcp"
  THEN IF threw THEN [status |-> 400, body |-> [value |-> [error |-> "invalid request"]]]
       ELSE [status |-> 200,
             body |-> [value |-> respond(call.req.body, Result(call, data), "")]]
  ELSE IF ~threw THEN [status |-> 200, body |-> Result(call, data)]
  ELSE IF call.req.path = "/api/add"
  THEN [status |-> 400, body |-> [value |-> [error |-> "unable to add"]]]
  ELSE [status |-> 500, body |-> EmptyMap]

RemoveAt(s, i) == SubSeq(s, 1, i - 1) \o SubSeq(s, i + 1, Len(s))

\* save() resumes after ensureDir: this.data is serialised as it is now and
\* writeFile is issued (line 98)
EnsureDirDone(i) ==
  /\ i \in 1..Len(calls)
  /\ calls[i].pc = "ensureDir"
  /\ calls' = [calls EXCEPT ![i].pc = "writeFile", ![i].text = JSONstringify(data)]
  /\ ev' = NoEvent
  /\ UNCHANGED <<storeVars, file, loads, now, ideal>>
  /\ UNCHANGED netVars
  /\ UNCHANGED inbox
  /\ UNCHANGED other
  /\ UNCHANGED stray
  /\ UNCHANGED handed

\* writeFile has opened the file (truncating it) and not written yet; only
\* the watcher's load() reads the file while the store runs
WriteTruncate(i) ==
  /\ i \in 1..Len(calls)
  /\ calls[i].pc = "writeFile"
  /\ watcher
  /\ file # Garbage
  /\ file' = Garbage
  /\ loads' = Watched
  /\ ev' = NoEvent
  /\ UNCHANGED <<storeVars, calls, now, ideal>>
  /\ UNCHANGED netVars
  /\ UNCHANGED inbox
  /\ UNCHANGED other
  /\ UNCHANGED stray
  /\ UNCHANGED handed

\* writeFile is done: save() returns and update() calls emit() (line 124); an
\* exception of emit() rejects the call
WriteDone(i) ==
  /\ i \in 1..Len(calls)
  /\ calls[i].pc = "writeFile"
  /\ file' = calls[i].text
  /\ loads' = Watched
  /\ calls' = RemoveAt(calls, i)
  /\ \E o \in EmitOutcomes :
       ev' = [kind |-> "saved",
              outcome |-> IF o.threw THEN "rejected" ELSE "resolved",
              call |-> [op |-> calls[i].op, id |-> calls[i].id, arg |-> calls[i].arg,
                        n |-> calls[i].n],
              notified |-> o.notified, threw |-> o.threw,
              req |-> None, reply |-> Reply(calls[i], o.threw)]
  /\ wire' = IF calls[i].event # "" /\ ~ev'.threw
             THEN broadcast(Fanout(wire, ev'.notified, snapshot),
                            EventMessage(calls[i], data))
             ELSE Fanout(wire, ev'.notified, snapshot)
  /\ inbox' = Deliver(inbox, ev'.notified, calls[i].n)
  /\ UNCHANGED <<storeVars, now, ideal, clients, wsRef, state, requests, responses>>
  /\ UNCHANGED other
  /\ UNCHANGED stray
  /\ handed' = Kept(handed, ev'.notified, snapshot)

\* mutant: a failed save puts the Document back to what the call found
SaveFailRollback(i) ==
  /\ i \in 1..Len(calls)
  /\ calls[i].pc \in {"ensureDir", "writeFile"}
  /\ calls' = RemoveAt(calls, i)
  /\ ev' = [NoEvent EXCEPT
              !.kind = "saveFailed",
              !.outcome = "rejected",
              !.call = [op |-> calls[i].op, id |-> calls[i].id, arg |-> calls[i].arg],
              !.reply = Reply(calls[i], TRUE)]
  /\ ideal' = None
  /\ data' = IF Parseable(file) THEN LoadMerge(JSONparse(file)) ELSE data
  /\ UNCHANGED <<phase, DEFAULT_CONFIG, shared, listeners, watcher, file, loads, now>>
  /\ UNCHANGED netVars
  /\ UNCHANGED inbox
  /\ UNCHANGED other
  /\ UNCHANGED stray
  /\ UNCHANGED handed

\* ensureDir or writeFile fails: save() throws and update() never reaches emit()
SaveFail(i) ==
  /\ i \in 1..Len(calls)
  /\ calls[i].pc \in {"ensureDir", "writeFile"}
  /\ calls' = RemoveAt(calls, i)
  /\ ev' = [NoEvent EXCEPT
              !.kind = "saveFailed",
              !.outcome = "rejected",
              !.call = [op |-> calls[i].op, id |-> calls[i].id, arg |-> calls[i].arg],
              !.reply = Reply(calls[i], TRUE)]
  /\ ideal' = None
  /\ UNCHANGED <<storeVars, file, loads, now>>
  /\ UNCHANGED netVars
  /\ UNCHANGED inbox
  /\ UNCHANGED other
  /\ UNCHANGED stray
  /\ UNCHANGED handed

\* the watcher's callback: load() (lines 73-94) resumes after readFile.  emit()
\* is called inside the try block, so a listener that throws lands in the catch
\* clause like a read or parse error does.
LoadDone ==
  /\ loads > 0
  /\ loads' = loads - 1
  /\ IF Parseable(file)
     THEN \E o \in EmitOutcomes :
            /\ ev' = [NoEvent EXCEPT !.kind = "load", !.notified = o.notified,
                                     !.threw = o.threw]
            /\ IF o.threw
               THEN data' = ShallowDefaults /\ shared' = InPlaceFields
               ELSE data' = LoadMerge(JSONparse(file)) /\ shared' = {}
     ELSE /\ data' = ShallowDefaults
          /\ shared' = InPlaceFields
          /\ ev' = [NoEvent EXCEPT !.kind = "loadFailed"]
  /\ wire' = Fanout(wire, ev'.notified, snapshot')
  /\ UNCHANGED <<phase, DEFAULT_CONFIG, listeners, watcher, file, calls, now, ideal>>
  /\ inbox' = Deliver(inbox, ev'.notified, 0)
  /\ UNCHANGED <<clients, wsRef, state, requests, responses>>
  /\ UNCHANGED other
  /\ UNCHANGED stray
  /\ handed' = Kept([handed EXCEPT !.shares = {}], ev'.notified, snapshot')

\* the mutation API
Call ==
  \/ \E source \in ParsedSources : AddSource(source)
  \/ \E id \in RemovedIds : RemoveSource(id)
  \/ \E c \in AudioCalls : UpdateAudio(c.id, c.audio)
  \/ \E c \in WindowCalls : UpdateWindow(c.id, c.window)
  \/ \E order \in Orders : Reorder(order)

\* the continuations the event loop runs
Resume ==
  \/ \E i \in 1..Len(calls) : EnsureDirDone(i)
  \/ \E i \in 1..Len(calls) : WriteTruncate(i)
  \/ \E i \in 1..Len(calls) : WriteDone(i)
  \/ \E i \in 1..Len(calls) : SaveFail(i)
  \/ LoadDone

\* startServer(), lines 284-301: initSkeleton, watchExternal, onChange(broadcast),
\* and only then requests are served
Startup ==
  \/ InitSkeleton
  \/ WatchExternal
  \/ (watcher /\ OnChange(Broadcast))

Serving == watcher /\ listeners = <<Broadcast>>

\* the store as the server runs it; requests overlap freely
Next ==
  \/ Startup
  \/ (Serving /\ Call)
  \/ Resume

Spec == Init /\ [][Next]_vars

\* the server with every request awaited before the next one is sent
NextSerial ==
  \/ Startup
  \/ (Serving /\ calls = <<>> /\ Call)
  \/ Resume

SpecSerial == Init /\ [][NextSerial]_vars

\* the class used directly: any listeners, the watcher optional, the methods
\* called once initSkeleton() has returned
NextBus ==
  \/ InitSkeleton
  \/ WatchExternal
  \/ \E l \in Probes : OnChange(l)
  \/ \E l \in Probes : Unsubscribe(l)
  \/ (phase = "ready" /\ Call)
  \/ Resume

SpecBus == Init /\ [][NextBus]_vars

\* ------------------------------------------------------------------ the class
\* The store as the command line uses it (cmdAdd, cmdRemove): one instance per
\* process, no watcher, every call awaited; and as a caller of the class may
\* use every method, take snapshots and subscribe a listener.
Src(id, t) ==
  [id |-> id, platform |-> "youtube", embedUrl |-> "embed", originalUrl |-> "short",
   addedAt |-> t]

\* config files found at startup: written by hand (fields left out) or by an
\* earlier run
ApiFiles ==
  {JSONstringify(d) : d \in
     {[version |-> 1, sources |-> <<>>],
      [version |-> 1, sources |-> <<Src("a", 0)>>, layout |-> [rows |-> 3],
       showIds |-> FALSE],
      [InitialDefaults EXCEPT
         !.sources = <<Src("a", 0), Src("b", 0), Src("c", 0), Src("d", 0)>>,
         !.audio = [k \in {"a", "b"} |->
                      IF k = "a" THEN [volume |-> 5, muted |-> FALSE] ELSE [muted |-> TRUE]],
         !.windows = [k \in {"c"} |-> [x |-> 1, y |-> 1, width |-> 2, height |-> 2]]]}}

ApiAudio ==
  {[id |-> i, audio |-> p] :
     i \in {"b"}, p \in {[muted |-> TRUE], [volume |-> 3], [volume |-> 0, muted |-> FALSE]}}
ApiWindows ==
  {[id |-> i, window |-> p] : i \in {"c"}, p \in {[x |-> 0], [width |-> 3, height |-> 3]}}
ApiLayouts == {[rows |-> 1], [columns |-> 0], [rows |-> 3, columns |-> 3]}
ApiOverlays == {[text |-> ""], [text |-> "hi", scrolling |-> TRUE], [scrolling |-> FALSE],
                [position |-> "bottom"]}
ApiOrders == {<<>>, <<"c", "a">>, <<"d", "d", "a">>, <<"z", "b">>}
ApiRemoved == {"a", "b"}
\* updateShowIds(true), (false), and (null), which POST /api/show-ids lets through
ApiFlags == {[value |-> TRUE], [value |-> FALSE], EmptyMap}

InitApi ==
  /\ phase = "new"
  /\ data = InitialDefaults
  /\ DEFAULT_CONFIG = InitialDefaults
  /\ shared = InPlaceFields
  /\ listeners = <<>>
  /\ watcher = FALSE
  /\ file \in {NoFile, Garbage} \cup ApiFiles
  /\ calls = <<>>
  /\ loads = 0
  /\ now = 0
  /\ ev = NoEvent
  /\ ideal = InitialDefaults
  /\ clients = {}
  /\ wire = [p \in Pages |-> <<>>]
  /\ wsRef = [p \in Pages |-> "none"]
  /\ state = [p \in Pages |-> None]
  /\ requests = [p \in Pages |-> 0]
  /\ responses = [p \in Pages |-> {}]
  /\ inbox = [l \in Probes |-> <<>>]
  /\ handed = NoSnapshot
  /\ other = NoOther
  /\ stray = [p \in Pages |-> "none"]

\* the process ends and the next command starts a new one: a new module-level
\* DEFAULT_CONFIG, a new VcastState (line 55); the file stays
Restart ==
  /\ phase = "ready"
  /\ calls = <<>>
  /\ phase' = "new"
  /\ data' = InitialDefaults
  /\ DEFAULT_CONFIG' = InitialDefaults
  /\ shared' = InPlaceFields
  /\ ev' = [NoEvent EXCEPT !.kind = "restart"]
  /\ UNCHANGED <<listeners, watcher, file, calls, loads, now, ideal, inbox>>
  /\ UNCHANGED netVars
  /\ UNCHANGED other
  /\ UNCHANGED stray
  /\ handed' = NoSnapshot

CallApi ==
  \/ \E id \in {"a", "b"} : AddSource(Src(id, 0))
  \/ \E id \in ApiRemoved : RemoveSource(id)
  \/ \E c \in ApiAudio : UpdateAudio(c.id, c.audio)
  \/ \E c \in ApiWindows : UpdateWindow(c.id, c.window)
  \/ \E order \in ApiOrders : Reorder(order)
  \/ \E layout \in ApiLayouts : UpdateLayout(layout)
  \/ \E overlay \in ApiOverlays : UpdateTextOverlay(overlay)
  \/ \E flag \in ApiFlags : UpdateShowIds(flag)

NextApi ==
  \/ InitSkeleton
  \/ OnChange(Keeper)
  \/ TakeSnapshot
  \/ \E e \in SnapshotEdits : ModifySnapshot(e)
  \/ (calls = <<>> /\ CallApi)
  \/ \E i \in 1..Len(calls) : EnsureDirDone(i)
  \/ \E i \in 1..Len(calls) : WriteDone(i)
  \/ \E i \in 1..Len(calls) : SaveFail(i)
  \/ Restart

SpecApi == InitApi /\ [][NextApi]_vars

\* the methods that write one field or one entry of a map
CallFields ==
  \/ \E c \in ApiAudio : UpdateAudio(c.id, c.audio)
  \/ \E c \in ApiWindows : UpdateWindow(c.id, c.window)
  \/ \E layout \in ApiLayouts : UpdateLayout(layout)
  \/ \E overlay \in ApiOverlays : UpdateTextOverlay(overlay)
  \/ \E flag \in ApiFlags : UpdateShowIds(flag)
  \/ \E flag \in ApiFlags : UpdateYoutubeNoCookie(flag)
  \/ \E flag \in ApiFlags : UpdateHideCursor(flag)

\* the class used through those methods once initSkeleton() has returned,
\* calls overlapping
NextFields ==
  \/ InitSkeleton
  \/ (phase = "ready" /\ CallFields)
  \/ \E i \in 1..Len(calls) : EnsureDirDone(i)
  \/ \E i \in 1..Len(calls) : WriteDone(i)
  \/ \E i \in 1..Len(calls) : SaveFail(i)

SpecFields == InitApi /\ [][NextFields]_vars

\* ------------------------------------------------------------------ pages
\* A page is mounted (useEffect): fetchState() sends GET /api/state and
\* connectWs() opens a socket.
Mount(p) ==
  /\ wsRef[p] = "none"
  /\ Cardinality({q \in Pages : wsRef[q] # "none"}) < MaxPages
  /\ wsRef' = [wsRef EXCEPT ![p] = "connecting"]
  /\ requests' = [requests EXCEPT ![p] = @ + 1]
  /\ ev' = NoEvent
  /\ UNCHANGED <<storeVars, file, calls, loads, now, ideal, clients, wire, state, responses>>
  /\ UNCHANGED inbox
  /\ UNCHANGED other
  /\ UNCHANGED stray
  /\ UNCHANGED handed

\* GET /api/state, lines 320-322: the answer carries snapshot()
GetState(p) ==
  /\ requests[p] > 0
  /\ requests' = [requests EXCEPT ![p] = @ - 1]
  /\ responses' = [responses EXCEPT ![p] = @ \cup {snapshot}]
  /\ ev' = NoEvent
  /\ UNCHANGED <<storeVars, file, calls, loads, now, ideal, clients, wire, wsRef, state>>
  /\ UNCHANGED inbox
  /\ UNCHANGED other
  /\ UNCHANGED stray
  /\ UNCHANGED handed

\* fetchState() resumes: setState(await res.json())
fetchState(p) ==
  /\ \E body \in responses[p] :
       /\ state' = [state EXCEPT ![p] = body]
       /\ responses' = [responses EXCEPT ![p] = @ \ {body}]
  /\ ev' = NoEvent
  /\ UNCHANGED <<storeVars, file, calls, loads, now, ideal, clients, wire, wsRef, requests>>
  /\ UNCHANGED inbox
  /\ UNCHANGED other
  /\ UNCHANGED stray
  /\ UNCHANGED handed

\* mutant: the socket joins clients and is sent nothing
WsOpenSilent(p) ==
  /\ wsRef[p] = "connecting"
  /\ wsRef' = [wsRef EXCEPT ![p] = "open"]
  /\ clients' = clients \cup {p}
  /\ ev' = NoEvent
  /\ UNCHANGED <<storeVars, file, calls, loads, now, ideal, wire, state, requests, responses>>
  /\ UNCHANGED inbox
  /\ UNCHANGED other
  /\ UNCHANGED stray
  /\ UNCHANGED handed

\* websocket.open, lines 434-437: the socket joins clients and is sent the state
WsOpen(p) ==
  /\ wsRef[p] = "connecting"
  /\ wsRef' = [wsRef EXCEPT ![p] = "open"]
  /\ clients' = clients \cup {p}
  /\ wire' = [wire EXCEPT ![p] = Append(@, [type |-> "state", data |-> snapshot])]
  /\ ev' = NoEvent
  /\ UNCHANGED <<storeVars, file, calls, loads, now, ideal, state, requests, responses>>
  /\ UNCHANGED inbox
  /\ UNCHANGED other
  /\ UNCHANGED stray
  /\ UNCHANGED handed

\* the event messages whose data the viewer writes into its state
PatchTypes == {"textOverlay", "showIds", "youtubeNoCookie"}

\* setState((prev) => (prev ? { ...prev, [k]: payload.data } : null))
Patch(prev, m) ==
  IF prev = None THEN None
  ELSE IF "data" \in DOMAIN m THEN Put(prev, m.type, m.data) ELSE Delete(prev, m.type)

\* ws.onmessage of the pages.  Both adopt a `state` message.  The viewer
\* (view.tsx lines 233-254) fetches the state again on added / removed / layout
\* and patches its state on textOverlay / showIds / youtubeNoCookie.  The
\* management page (ViewPage.tsx lines 240-252) calls window.location.reload()
\* on `reload`: the document is loaded anew, so the React state is null again,
\* what the old document awaited is gone, its socket closes (the server's close
\* handler takes it out of clients) and the new document's effect runs
\* fetchState() and connectWs().  Every other message is dropped.
onmessage(p) ==
  LET m == Head(wire[p])
      reloads == p = "manage" /\ m.type = "reload"
  IN /\ wire[p] # <<>>
     /\ wire' = [wire EXCEPT ![p] = IF reloads THEN <<>> ELSE Tail(@)]
     /\ state' = [state EXCEPT ![p] =
                    IF reloads THEN None
                    ELSE IF m.type = "state" THEN m.data
                    ELSE IF p = "view" /\ m.type \in PatchTypes THEN Patch(@, m)
                    ELSE @]
     /\ requests' = [requests EXCEPT ![p] =
                       IF reloads THEN 1
                       ELSE IF p = "view" /\ m.type \in RefetchTypes THEN @ + 1
                       ELSE @]
     /\ responses' = [responses EXCEPT ![p] = IF reloads THEN {} ELSE @]
     /\ wsRef' = [wsRef EXCEPT ![p] = IF reloads THEN "connecting" ELSE @]
     /\ clients' = IF reloads THEN clients \ {p} ELSE clients
     /\ ev' = NoEvent
     /\ UNCHANGED <<storeVars, file, calls, loads, now, ideal>>
     /\ UNCHANGED inbox
     /\ UNCHANGED other
     /\ UNCHANGED stray
     /\ UNCHANGED handed

\* fetchState() when the GET fails: fetch rejects or res.ok is false, and
\* setState is not called
fetchFail(p) ==
  /\ requests[p] > 0
  /\ requests' = [requests EXCEPT ![p] = @ - 1]
  /\ ev' = [NoEvent EXCEPT !.kind = "fetchFailed"]
  /\ UNCHANGED <<storeVars, file, calls, loads, now, ideal, clients, wire, wsRef, state,
                 responses>>
  /\ UNCHANGED inbox
  /\ UNCHANGED other
  /\ UNCHANGED stray
  /\ UNCHANGED handed

\* the program that started the server calls the `broadcast` that startServer
\* returns (line 509) with { type: "reload" }
Reload ==
  /\ clients # {}
  /\ \A p \in clients : Len(wire[p]) < MaxFrames
  /\ wire' = broadcast(wire, [type |-> "reload"])
  /\ ev' = NoEvent
  /\ UNCHANGED <<storeVars, file, calls, loads, now, ideal, clients, wsRef, state, requests,
                 responses>>
  /\ UNCHANGED inbox
  /\ UNCHANGED other
  /\ UNCHANGED stray
  /\ UNCHANGED handed

\* mutant: the page's onclose also clears the state
WsCloseBlank(p) ==
  /\ wsRef[p] \in {"open", "broken"}
  /\ wsRef' = [wsRef EXCEPT ![p] = "closed"]
  /\ clients' = clients \ {p}
  /\ wire' = [wire EXCEPT ![p] = <<>>]
  /\ state' = [state EXCEPT ![p] = None]
  /\ ev' = NoEvent
  /\ UNCHANGED <<storeVars, file, calls, loads, now, ideal, requests, responses>>
  /\ UNCHANGED inbox
  /\ UNCHANGED other
  /\ UNCHANGED stray
  /\ UNCHANGED handed

\* mutant: the server's close handler leaves the socket in clients
WsCloseNoDelete(p) ==
  /\ wsRef[p] \in {"open", "broken"}
  /\ wsRef' = [wsRef EXCEPT ![p] = "closed"]
  /\ wire' = [wire EXCEPT ![p] = <<>>]
  /\ ev' = NoEvent
  /\ UNCHANGED <<storeVars, file, calls, loads, now, ideal, clients, state, requests,
                 responses>>
  /\ UNCHANGED inbox
  /\ UNCHANGED handed
  /\ UNCHANGED other
  /\ UNCHANGED stray

\* the connection ends: websocket.close (lines 438-440) takes the socket out of
\* clients, the frames on the way are lost, and the page's onclose schedules
\* connectWs
WsClose(p) ==
  /\ wsRef[p] \in {"open", "broken"}
  /\ wsRef' = [wsRef EXCEPT ![p] = "closed"]
  /\ clients' = clients \ {p}
  /\ wire' = [wire EXCEPT ![p] = <<>>]
  /\ ev' = NoEvent
  /\ UNCHANGED <<storeVars, file, calls, loads, now, ideal, state, requests, responses>>
  /\ UNCHANGED inbox
  /\ UNCHANGED other
  /\ UNCHANGED stray
  /\ UNCHANGED handed

\* mutant: a page that has a state to show does not connect again
connectWsGivesUp(p) ==
  /\ wsRef[p] = "closed"
  /\ state[p] = None
  /\ wsRef' = [wsRef EXCEPT ![p] = "connecting"]
  /\ ev' = NoEvent
  /\ UNCHANGED <<storeVars, file, calls, loads, now, ideal, clients, wire, state, requests,
                 responses>>
  /\ UNCHANGED inbox
  /\ UNCHANGED other
  /\ UNCHANGED stray
  /\ UNCHANGED handed

\* ws.onclose's setTimeout(connectWs, 1500) fires: the delay is the same
\* literal at every close, and the timer is pending while wsRef is "closed"
connectWs(p) ==
  /\ wsRef[p] = "closed"
  /\ wsRef' = [wsRef EXCEPT ![p] = "connecting"]
  /\ ev' = NoEvent
  /\ UNCHANGED <<storeVars, file, calls, loads, now, ideal, clients, wire, state, requests,
                 responses>>
  /\ UNCHANGED inbox
  /\ UNCHANGED other
  /\ UNCHANGED stray
  /\ UNCHANGED handed

\* the requests the pages and other clients make while the server runs
Traffic ==
  \/ \E p \in Pages : Mount(p)
  \/ \E p \in Pages : GetState(p)
  \/ \E p \in Pages : fetchState(p)
  \/ \E p \in Pages : WsOpen(p)
  \/ \E p \in Pages : onmessage(p)
  \/ \E p \in Pages : WsClose(p)
  \/ \E p \in Pages : connectWs(p)

\* the mutations sent to the server: adds through /api/add and through /mcp
Requests ==
  \/ \E source \in ParsedSources : source.id = "a" /\ ApiAdd(source)
  \/ \E source \in ParsedSources : source.id = "b" /\ AddSource(source)

\* the server with pages connected to it
NextNet ==
  \/ Startup
  \/ (Serving /\ Requests)
  \/ (Serving /\ Traffic)
  \/ Resume

SpecNet == Init /\ [][NextNet]_vars

\* ------------------------------------------------------------------ requests
\* The URLs clients send: "short" is https://youtu.be/a, "watch" is
\* https://www.youtube.com/watch?v=a, "channel" is https://twitch.tv/b, and
\* "mailto" is mailto:a@b.example, which no provider matches (GenericProvider
\* wants ^https?://).
Urls == {"short", "watch", "channel", "mailto"}

\* parseStream(url), part_003 lines 159-165: the result of the first provider
\* that parses the URL; Error("Unsupported stream URL") when none does
Supported(url) == \E s \in ParsedSources : s.originalUrl = url
parseStream(url) == CHOOSE s \in ParsedSources : s.originalUrl = url

\* a handler returns without calling the store: reply is its HTTP response
\* (None for a WebSocket message, which has none)
Answer(req, reply) ==
  /\ ev' = [NoEvent EXCEPT !.kind = "answer", !.req = req, !.reply = reply]
  /\ UNCHANGED <<storeVars, file, calls, loads, now, ideal>>
  /\ UNCHANGED netVars
  /\ UNCHANGED inbox
  /\ UNCHANGED other
  /\ UNCHANGED stray
  /\ UNCHANGED handed

\* json(data, status), lines 254-259
json(value, status) == [status |-> status, body |-> [value |-> value]]

\* the REST handlers of fetch, lines 328-412.  `!body.k` is "k is not in body".
fetch(path, body) ==
  LET req == [via |-> "rest", path |-> path, body |-> body]
  IN CASE path = "/api/add" ->
            IF "url" \notin DOMAIN body
            THEN Answer(req, json([error |-> "url required"], 400))
            ELSE IF ~Supported(body.url)
            THEN Answer(req, json([error |-> "Unsupported stream URL"], 400))
            ELSE Apply([op |-> "addSource", id |-> parseStream(body.url).id,
                        arg |-> Payload(parseStream(body.url), now + 1),
                        event |-> "added", req |-> req], {})
       [] path = "/api/remove" ->
            IF "id" \notin DOMAIN body
            THEN Answer(req, json([error |-> "id required"], 400))
            ELSE Apply([op |-> "removeSource", id |-> body.id, arg |-> None,
                        event |-> "removed", req |-> req], {"sources"})
       [] path = "/api/layout" ->
            Apply([op |-> "updateLayout", id |-> "",
                   arg |-> MergeRec({"rows", "columns"}, body, EmptyMap),
                   event |-> "layout", req |-> req], {"layout"})
       [] path = "/api/audio" ->
            IF "id" \notin DOMAIN body
            THEN Answer(req, json([error |-> "id required"], 400))
            ELSE Apply([op |-> "updateAudio", id |-> body.id,
                        arg |-> MergeRec({"volume", "muted"}, body, EmptyMap),
                        event |-> "audio", req |-> req], {})
       [] path = "/api/window" ->
            IF "id" \notin DOMAIN body
            THEN Answer(req, json([error |-> "id required"], 400))
            ELSE Apply([op |-> "updateWindow", id |-> body.id,
                        arg |-> MergeRec({"x", "y", "width", "height"}, body, EmptyMap),
                        event |-> "window", req |-> req], {})
       [] path = "/api/reorder" ->
            IF "order" \notin DOMAIN body
            THEN Answer(req, json([error |-> "order required"], 400))
            ELSE Apply([op |-> "reorder", id |-> "", arg |-> body.order,
                        event |-> "state", req |-> req], {"sources"})
       [] path = "/api/text-overlay" ->
            Apply([op |-> "updateTextOverlay", id |-> "",
                   arg |-> MergeRec({"text", "position", "scrolling"}, body, EmptyMap),
                   event |-> "textOverlay", req |-> req], {"textOverlay"})
       [] path = "/api/show-ids" ->
            IF "showIds" \notin DOMAIN body
            THEN Answer(req, json([error |-> "showIds required"], 400))
            ELSE Apply([op |-> "updateShowIds", id |-> "", arg |-> [value |-> body.showIds],
                        event |-> "showIds", req |-> req], {})

\* handleMcpRequest, mcp.ts lines 4-57.  body is Garbage when request.json()
\* throws and None when the text is the JSON `null`, whose destructuring
\* throws; `params?.k` of a request without params is undefined.
handleMcpRequest(body) ==
  LET req == [via |-> "mcp", body |-> body]
      params == Opt(body, "params", EmptyMap)
      method == Opt(body, "method", "")
  IN IF body \in {Garbage, None}
     THEN Answer(req, json([error |-> "invalid request"], 400))
     ELSE CASE method = "listSources" ->
                 Answer(req, json(respond(body, [value |-> snapshot.sources], ""), 200))
            [] method = "addSource" ->
                 IF "url" \notin DOMAIN params
                 THEN Answer(req, json(respond(body, EmptyMap, "url is required"), 200))
                 ELSE IF ~Supported(params.url)
                 THEN Answer(req, json([error |-> "Unsupported stream URL"], 400))
                 ELSE Apply([op |-> "addSource", id |-> parseStream(params.url).id,
                             arg |-> Payload(parseStream(params.url), now + 1),
                             event |-> "", req |-> req], {})
            [] method = "removeSource" ->
                 IF "id" \notin DOMAIN params
                 THEN Answer(req, json(respond(body, EmptyMap, "id is required"), 200))
                 ELSE Apply([op |-> "removeSource", id |-> params.id, arg |-> None,
                             event |-> "", req |-> req], {"sources"})
            [] method = "updateLayout" ->
                 Apply([op |-> "updateLayout", id |-> "", arg |-> params,
                        event |-> "", req |-> req], {"layout"})
            [] method = "updateAudio" ->
                 IF "id" \notin DOMAIN params
                 THEN Answer(req, json(respond(body, EmptyMap, "id is required"), 200))
                 ELSE Apply([op |-> "updateAudio", id |-> params.id, arg |-> params,
                             event |-> "", req |-> req], {})
            [] method = "updateWindow" ->
                 IF "id" \notin DOMAIN params
                 THEN Answer(req, json(respond(body, EmptyMap, "id is required"), 200))
                 ELSE Apply([op |-> "updateWindow", id |-> params.id, arg |-> params,
                             event |-> "", req |-> req], {})
            [] OTHER -> Answer(req, json(respond(body, EmptyMap, "Unknown method"), 200))

\* mutant: `pong` goes to every client
pongBroadcast(p, req) ==
  /\ Len(wire[p]) < MaxFrames
  /\ wire' = broadcast(wire, [type |-> "pong"])
  /\ ev' = [NoEvent EXCEPT !.kind = "answer", !.req = req]
  /\ UNCHANGED <<storeVars, file, calls, loads, now, ideal>>
  /\ UNCHANGED <<clients, wsRef, state, requests, responses>>
  /\ UNCHANGED inbox
  /\ UNCHANGED other
  /\ UNCHANGED stray
  /\ UNCHANGED handed

\* websocket.message, lines 494-496: ws.send of `pong` to the sender
pong(p, req) ==
  /\ Len(wire[p]) < MaxFrames
  /\ wire' = [wire EXCEPT ![p] = Append(@, [type |-> "pong"])]
  /\ ev' = [NoEvent EXCEPT !.kind = "answer", !.req = req]
  /\ UNCHANGED <<storeVars, file, calls, loads, now, ideal>>
  /\ UNCHANGED <<clients, wsRef, state, requests, responses>>
  /\ UNCHANGED inbox
  /\ UNCHANGED other
  /\ UNCHANGED stray
  /\ UNCHANGED handed

\* websocket.message, lines 441-500, for a frame from the socket of p.  payload
\* is Garbage when JSON.parse throws; the catch clause logs what the handler
\* throws, parseStream's error included.
message(p, payload) ==
  LET req == [via |-> "ws", from |-> p, payload |-> payload]
      type == Opt(payload, "type", "")
      has(k) == k \in DOMAIN payload
      arg == Opt(payload, "data", EmptyMap)
  IN /\ p \in clients
     /\ wsRef[p] = "open"
     /\ CASE payload = Garbage -> Answer(req, None)
          [] type = "add" /\ has("url") ->
               IF ~Supported(payload.url) THEN Answer(req, None)
               ELSE Apply([op |-> "addSource", id |-> parseStream(payload.url).id,
                           arg |-> Payload(parseStream(payload.url), now + 1),
                           event |-> "added", req |-> req], {})
          [] type = "remove" /\ has("id") ->
               Apply([op |-> "removeSource", id |-> payload.id, arg |-> None,
                      event |-> "removed", req |-> req], {"sources"})
          [] type = "layout" ->
               Apply([op |-> "updateLayout", id |-> "", arg |-> arg,
                      event |-> "layout", req |-> req], {"layout"})
          [] type = "audio" /\ has("id") ->
               Apply([op |-> "updateAudio", id |-> payload.id, arg |-> arg,
                      event |-> "audio", req |-> req], {})
          [] type = "window" /\ has("id") ->
               Apply([op |-> "updateWindow", id |-> payload.id, arg |-> arg,
                      event |-> "window", req |-> req], {})
          [] type = "reorder" /\ has("order") ->
               Apply([op |-> "reorder", id |-> "", arg |-> payload.order,
                      event |-> "state", req |-> req], {"sources"})
          [] type = "textOverlay" /\ has("data") ->
               Apply([op |-> "updateTextOverlay", id |-> "", arg |-> arg,
                      event |-> "textOverlay", req |-> req], {"textOverlay"})
          [] type = "showIds" /\ has("data") ->
               Apply([op |-> "updateShowIds", id |-> "", arg |-> [value |-> payload.data],
                      event |-> "showIds", req |-> req], {})
          [] type = "ping" -> pong(p, req)
          [] OTHER -> Answer(req, None)

\* the connection of p is lost (the peer is gone, the network is cut); the
\* server's close handler has not run yet
Break(p) ==
  /\ wsRef[p] = "open"
  /\ wsRef' = [wsRef EXCEPT ![p] = "broken"]
  /\ ev' = NoEvent
  /\ UNCHANGED <<storeVars, file, calls, loads, now, ideal, clients, wire, state, requests,
                 responses>>
  /\ UNCHANGED inbox
  /\ UNCHANGED other
  /\ UNCHANGED stray
  /\ UNCHANGED handed

\* what clients post to the REST endpoints
RestRequests ==
  {[path |-> "/api/add", body |-> [url |-> "short"]],
   [path |-> "/api/add", body |-> [url |-> "mailto"]],
   [path |-> "/api/remove", body |-> [id |-> "a"]],
   [path |-> "/api/audio", body |-> [id |-> "a", volume |-> 15]],
   [path |-> "/api/reorder", body |-> [order |-> <<"b", "a">>]],
   [path |-> "/api/text-overlay", body |-> [text |-> "hi"]],
   [path |-> "/api/show-ids", body |-> EmptyMap]}

\* what clients post to /mcp
McpBodies ==
  {Garbage, None,
   [id |-> 7, method |-> "listSources"],
   [id |-> 7, method |-> "addSource", params |-> [url |-> "channel"]],
   [id |-> 7, method |-> "addSource", params |-> [url |-> "mailto"]],
   [id |-> 7, method |-> "removeSource"],
   [id |-> 7, method |-> "updateAudio", params |-> [id |-> "a", volume |-> 15]],
   [id |-> 7, method |-> "undo"]}

\* the frames clients send on their socket
WsPayloads ==
  {Garbage,
   [type |-> "ping"],
   [type |-> "add", url |-> "mailto"],
   [type |-> "add", url |-> "channel"],
   [type |-> "remove", id |-> "z"],
   [type |-> "audio", id |-> "z", data |-> [volume |-> 3]]}

\* the clients that send frames (the pages only listen; a sender is a script
\* or a test client, here on the socket named after the management page)
Senders == {"manage"}

\* the server is started on the file an earlier run left, while pages opened
\* before are retrying their connection: their GET failed, their state is
\* null, and connectWs has just made a new socket
InitServer ==
  /\ phase = "new"
  /\ data = InitialDefaults
  /\ DEFAULT_CONFIG = InitialDefaults
  /\ shared = InPlaceFields
  /\ listeners = <<>>
  /\ watcher = FALSE
  /\ file \in {JSONstringify(d) : d \in SavedDocuments}
  /\ calls = <<>>
  /\ loads = 0
  /\ now = 0
  /\ ev = NoEvent
  /\ ideal = InitialDefaults
  /\ clients = {}
  /\ wire = [p \in Pages |-> <<>>]
  /\ wsRef = [p \in Pages |-> "connecting"]
  /\ state = [p \in Pages |-> None]
  /\ requests = [p \in Pages |-> 0]
  /\ responses = [p \in Pages |-> {}]
  /\ inbox = [l \in Probes |-> <<>>]
  /\ handed = NoSnapshot
  /\ other = NoOther
  /\ stray = [p \in Pages |-> "none"]

\* the sockets, up to the close of each
Sockets ==
  \/ \E p \in Pages : WsOpen(p)
  \/ \E p \in Pages : Break(p)
  \/ \E p \in Pages : WsClose(p)
  \/ \E p \in Senders : \E payload \in WsPayloads : message(p, payload)

\* the server and its WebSocket clients
NextWs ==
  \/ Startup
  \/ (Serving /\ Sockets)
  \/ Resume

SpecWs == InitServer /\ [][NextWs]_vars

\* the server and the clients of /mcp
NextMcp ==
  \/ Startup
  \/ (Serving /\ \E body \in McpBodies : handleMcpRequest(body))
  \/ Resume

SpecMcp == InitServer /\ [][NextMcp]_vars

\* the server and the clients of its REST endpoints, pages listening
NextHttp ==
  \/ Startup
  \/ (Serving /\ \E p \in Pages : WsOpen(p))
  \/ (Serving /\ \E p \in Pages : WsClose(p))
  \/ (Serving /\ \E r \in RestRequests : fetch(r.path, r.body))
  \/ Resume

SpecHttp == InitServer /\ [][NextHttp]_vars

\* what the management page posts while pages are watched
PageRequests ==
  {[path |-> "/api/text-overlay", body |-> [text |-> "hi"]]}

\* the server with a page connected, its GETs failing at times, and reloads
\* ordered by the program that runs the server
NextPage ==
  \/ Startup
  \/ (Serving /\ Traffic)
  \/ (Serving /\ \E p \in Pages : fetchFail(p))
  \/ (Serving /\ Reload)
  \/ (Serving /\ \E r \in PageRequests : fetch(r.path, r.body))
  \/ Resume

SpecPage == Init /\ [][NextPage]_vars

\* the pages and their sockets while the text overlay is being changed
NextRetry ==
  \/ Startup
  \/ (Serving /\ Traffic)
  \/ (Serving /\ \E r \in PageRequests : fetch(r.path, r.body))
  \/ Resume

\* a timer that was set fires, and a server that listens accepts the connection
RetryFairness ==
  \A p \in Pages : /\ WF_vars(Serving /\ connectWs(p))
                   /\ WF_vars(Serving /\ WsOpen(p))

SpecRetry == Init /\ [][NextRetry]_vars /\ RetryFairness

\* ------------------------------------------------------------------ two instances
\* this.data of the second instance: a field that holds DEFAULT_CONFIG's object
\* shows that object's content
OtherData ==
  [k \in DOMAIN other.own |->
     IF k \in other.shared THEN DEFAULT_CONFIG[k] ELSE other.own[k]]

\* new VcastState(path), lines 52-59: the field initialiser is
\* data = { ...DEFAULT_CONFIG }; found is what the path holds
OtherNew(found) ==
  /\ phase = "ready"
  /\ other.phase = "none"
  /\ other' = [phase |-> "new", own |-> ShallowDefaults, shared |-> InPlaceFields,
               file |-> found, seen |-> <<>>]
  /\ ev' = [NoEvent EXCEPT !.kind = "otherNew"]
  /\ UNCHANGED <<storeVars, file, calls, loads, now, ideal>>
  /\ UNCHANGED netVars
  /\ UNCHANGED inbox
  /\ UNCHANGED handed
  /\ UNCHANGED stray

\* initSkeleton(), lines 63-71, of the second instance; its listener is
\* subscribed right after
OtherInitSkeleton ==
  /\ other.phase = "new"
  /\ IF other.file = NoFile
     THEN other' = [other EXCEPT !.phase = "ready", !.own = ShallowDefaults,
                                 !.shared = InPlaceFields,
                                 !.file = JSONstringify(ShallowDefaults)]
     ELSE IF Parseable(other.file)
     THEN other' = [other EXCEPT !.phase = "ready",
                                 !.own = LoadMerge(JSONparse(other.file)),
                                 !.shared = {}]
     ELSE other' = [other EXCEPT !.phase = "ready", !.own = ShallowDefaults,
                                 !.shared = InPlaceFields]
  /\ ev' = [NoEvent EXCEPT !.kind = "otherInit"]
  /\ UNCHANGED <<storeVars, file, calls, loads, now, ideal>>
  /\ UNCHANGED netVars
  /\ UNCHANGED inbox
  /\ UNCHANGED handed
  /\ UNCHANGED stray

\* addSource(source) of the second instance, lines 132-146, awaited.  The
\* instance has no watcher and its calls come one at a time, so nothing of its
\* own runs between the mutator, the save and the emit.  The push and the
\* assignments of the mutator write into the objects data.sources and
\* data.audio, whoever else holds them.
OtherAddSource(source) ==
  LET d == addSourceMut(OtherData, Payload(source, now + 1))
      written == other.shared \cap {"sources", "audio"}
  IN /\ other.phase = "ready"
     /\ calls = <<>>
     /\ now < MaxCalls
     /\ now' = now + 1
     /\ DEFAULT_CONFIG' = [k \in DOMAIN DEFAULT_CONFIG |->
                             IF k \in written THEN d[k] ELSE DEFAULT_CONFIG[k]]
     /\ data' = [k \in DOMAIN data |->
                   IF k \in written \cap shared THEN d[k] ELSE data[k]]
     /\ other' = [other EXCEPT !.own = d, !.file = JSONstringify(d),
                               !.seen = Append(@, JSONparse(JSONstringify(d)))]
     /\ ev' = [NoEvent EXCEPT !.kind = "otherCall"]
     /\ UNCHANGED <<phase, shared, listeners, watcher, file, calls, loads, ideal>>
     /\ UNCHANGED netVars
     /\ UNCHANGED inbox
     /\ UNCHANGED handed
     /\ UNCHANGED stray

\* config files the second instance's path may hold
OtherFiles == {NoFile} \cup {JSONstringify(d) : d \in SavedDocuments}

\* two stores in one process (a test with two instances), each call awaited
NextTwo ==
  \/ InitSkeleton
  \/ \E l \in Probes : OnChange(l)
  \/ \E found \in OtherFiles : OtherNew(found)
  \/ OtherInitSkeleton
  \/ (calls = <<>> /\ \E source \in ParsedSources : AddSource(source))
  \/ (calls = <<>> /\ \E id \in RemovedIds : RemoveSource(id))
  \/ \E source \in ParsedSources : OtherAddSource(source)
  \/ \E i \in 1..Len(calls) : EnsureDirDone(i)
  \/ \E i \in 1..Len(calls) : WriteDone(i)

SpecTwo == Init /\ [][NextTwo]_vars

\* ------------------------------------------------------------------ transports
\* One mutation with its arguments, as a client means it: op is the WebSocket
\* message type, which is also the last part of the REST path.
Mutations ==
  {[op |-> "add", url |-> "channel"],
   [op |-> "remove", id |-> "a"],
   [op |-> "layout", data |-> [rows |-> 3]],
   [op |-> "audio", id |-> "a", data |-> [volume |-> 3, muted |-> TRUE]],
   [op |-> "window", id |-> "b", data |-> [x |-> 1]]}

\* the arguments without the name of the operation
ArgsOf(m) == [k \in DOMAIN m \ {"op"} |-> m[k]]

\* the body a client posts to the REST endpoint: the handlers read url, id and
\* the fields of the partial from the top level of the body (lines 328-381)
RestOf(m) ==
  [path |-> [add |-> "/api/add", remove |-> "/api/remove", layout |-> "/api/layout",
             audio |-> "/api/audio", window |-> "/api/window"][m.op],
   body |-> IF "data" \in DOMAIN m
            THEN [k \in DOMAIN m \ {"op", "data"} |-> m[k]] @@ m.data
            ELSE ArgsOf(m)]

\* the frame a client sends: type, url or id, and the partial under `data`
\* (lines 449-470)
WsOf(m) == [type |-> m.op] @@ ArgsOf(m)

\* the body a client posts to /mcp: the handler reads url, id and the fields of
\* the partial from params (mcp.ts lines 16-50)
McpOf(m) ==
  [id |-> 7,
   method |-> [add |-> "addSource", remove |-> "removeSource", layout |-> "updateLayout",
               audio |-> "updateAudio", window |-> "updateWindow"][m.op],
   params |-> RestOf(m).body]

\* the call of the Mutation API the mutation stands for, made at time t
Direct(m, t) ==
  CASE m.op = "add" -> [op |-> "addSource", arg |-> Payload(parseStream(m.url), t)]
    [] m.op = "remove" -> [op |-> "removeSource", id |-> m.id]
    [] m.op = "layout" -> [op |-> "updateLayout", arg |-> m.data]
    [] m.op = "audio" -> [op |-> "updateAudio", id |-> m.id, arg |-> m.data]
    [] m.op = "window" -> [op |-> "updateWindow", id |-> m.id, arg |-> m.data]

\* the server with the same mutations arriving over its three transports;
\* the sockets stay open
NextTransport ==
  \/ Startup
  \/ (Serving /\ \E p \in Pages : WsOpen(p))
  \/ (Serving /\ \E m \in Mutations : fetch(RestOf(m).path, RestOf(m).body))
  \/ (Serving /\ \E p \in Senders : \E m \in Mutations : message(p, WsOf(m)))
  \/ (Serving /\ \E m \in Mutations : handleMcpRequest(McpOf(m)))
  \/ Resume

SpecTransport == InitServer /\ [][NextTransport]_vars

\* ------------------------------------------------------------------ a listener that keeps
\* the store with its watcher and one listener that keeps the snapshot of the
\* last emit(); calls overlap freely
NextKeep ==
  \/ InitSkeleton
  \/ WatchExternal
  \/ OnChange(Keeper)
  \/ (listeners = <<Keeper>> /\ Call)
  \/ Resume

SpecKeep == Init /\ [][NextKeep]_vars

\* ------------------------------------------------------------------ unmount
\* The component of page p is unmounted (the route changes, the effect is run
\* again): the cleanup of useEffect calls wsRef.current.close() (view.tsx lines
\* 210-214, ViewPage.tsx lines 206-213).  The close event of that socket runs
\* its onclose, which sets the retry timer; when the socket had closed before,
\* its timer is pending already.  Nothing clears the timer.  The React state is
\* gone with the component, and the page can be mounted anew.  Taken with no
\* GET of the component on the way.
Unmount(p) ==
  /\ wsRef[p] # "none"
  /\ stray[p] = "none"
  /\ requests[p] = 0
  /\ responses[p] = {}
  /\ wsRef' = [wsRef EXCEPT ![p] = "none"]
  /\ stray' = [stray EXCEPT ![p] = "closed"]
  /\ clients' = clients \ {p}
  /\ wire' = [wire EXCEPT ![p] = <<>>]
  /\ state' = [state EXCEPT ![p] = None]
  /\ ev' = [NoEvent EXCEPT !.kind = "unmount"]
  /\ UNCHANGED <<storeVars, file, calls, loads, now, ideal, requests, responses>>
  /\ UNCHANGED inbox
  /\ UNCHANGED handed
  /\ UNCHANGED other

\* setTimeout(connectWs, 1500) of a socket whose component is gone fires:
\* connectWs() makes a new WebSocket
StrayConnect(p) ==
  /\ stray[p] = "closed"
  /\ stray' = [stray EXCEPT ![p] = "connecting"]
  /\ ev' = NoEvent
  /\ UNCHANGED <<storeVars, file, calls, loads, now, ideal>>
  /\ UNCHANGED netVars
  /\ UNCHANGED inbox
  /\ UNCHANGED handed
  /\ UNCHANGED other

\* the pages mounted, unmounted and mounted again while the server runs
NextUnmount ==
  \/ Startup
  \/ (Serving /\ Traffic)
  \/ (Serving /\ \E p \in Pages : Unmount(p))
  \/ \E p \in Pages : StrayConnect(p)

SpecUnmount == Init /\ [][NextUnmount]_vars

\* ------------------------------------------------------------------ claims
\* nothing is on the way: no call, no reload, no request, answer or frame, no
\* connection being set up
Quiescent ==
  /\ calls = <<>>
  /\ loads = 0
  /\ \A p \in Pages : wire[p] = <<>> /\ requests[p] = 0 /\ responses[p] = {}
  /\ \A p \in Pages : wsRef[p] \in {"none", "open"}

\* C8: once mutations have stopped and every answer and frame on the way has
\* been delivered, the state of every connected page equals the server's
\* Document (stated for the runs in which no save() has thrown)
C8_EventuallyConsistent ==
  (Quiescent /\ ideal # None) => \A p \in clients : state[p] = data

InFlight(i) == i \in 1..Len(calls)
AppliedNow(op) == ev.kind = "apply" /\ ev.call.op = op

\* C1: in every reachable state no two entries of sources share an id
C1_UniqueIds ==
  \A i, j \in 1..Len(data.sources) :
    i # j => data.sources[i].id # data.sources[j].id

\* an addSource of an id that is already listed has just been applied, with
\* another source beside it
C1_Witness ==
  /\ AppliedNow("addSource")
  /\ Len(data.sources) = 2
  /\ \E i \in 1..2 : data.sources[i] = ev.call.arg /\ ev.call.arg.addedAt >= 2
  /\ ideal = data

\* C2: addSource with an id that is already in sources replaces the entry at
\* its index with the call's payload; the length and every other entry stay
C2_UpsertInPlace ==
  [][(ev'.kind = "apply" /\ ev'.call.op = "addSource"
        /\ ev'.call.id \in IdsOf(data.sources))
     => /\ Len(data'.sources) = Len(data.sources)
        /\ \A i \in 1..Len(data.sources) :
             IF data.sources[i].id = ev'.call.id
             THEN data'.sources[i] = ev'.call.arg
             ELSE data'.sources[i] = data.sources[i]]_vars

\* the entry of "a" was replaced, at index 1 of 2, by a call with other data
C2_Witness ==
  /\ AppliedNow("addSource")
  /\ Len(data.sources) = 2
  /\ data.sources[1] = ev.call.arg
  /\ data.sources[1].originalUrl = "watch"
  /\ data.sources[1].addedAt > data.sources[2].addedAt

\* C3: when a removeSource(id) call completes, id is in neither sources, audio
\* nor windows
C3_RemovedWhenComplete ==
  (ev.outcome = "resolved" /\ ev.call.op = "removeSource")
  => /\ ev.call.id \notin IdsOf(data.sources)
     /\ ev.call.id \notin DOMAIN data.audio
     /\ ev.call.id \notin DOMAIN data.windows

\* C4: every key of audio and of windows is the id of an entry of sources
C4_NoOrphans ==
  /\ DOMAIN data.audio \subseteq IdsOf(data.sources)
  /\ DOMAIN data.windows \subseteq IdsOf(data.sources)

\* C5: a successful mutation notifies every subscribed listener once, and
\* nothing but the completion of a mutation notifies a listener (no external
\* edit of the file happens in this specification)
C5_FanOutOncePerMutation ==
  /\ ev.outcome = "resolved" => ev.notified = listeners
  /\ ev.notified # <<>> => ev.kind = "saved"

\* C6: while a mutation call is between its apply and its return no other
\* mutation is applied, and what its save writes is the Document as its own
\* mutator left it
C6_RunToCompletion ==
  /\ Len(calls) <= 1
  /\ \A i \in 1..Len(calls) :
       calls[i].pc = "writeFile" => calls[i].text = JSONstringify(calls[i].applied)

\* C7: once several calls have all completed (no save failed, no reload is
\* pending), memory holds the effect of each in call order and the file
\* holds the same Document
C7_OverlapKeepsEffects ==
  (calls = <<>> /\ loads = 0 /\ ideal # None /\ now >= 2)
  => (data = ideal /\ file = JSONstringify(data))

\* C9: a failing save rejects the call, rolls nothing back (the Document
\* stays as it is, which right after the apply is the mutator's result),
\* notifies nobody and leaves the store serving
C9_SaveFailureKeepsEffect ==
  [][ev'.kind = "saveFailed"
     => /\ ev'.outcome = "rejected"
        /\ data' = data
        /\ ev'.notified = <<>>
        /\ phase' = "ready"
        /\ (ev.kind = "apply" => data' = calls[Len(calls)].applied)]_vars

\* after a failed save a later call was served and resolved, and memory holds
\* the effects of both
C9_Witness ==
  /\ ideal = None
  /\ ev.kind = "saved" /\ ev.outcome = "resolved"
  /\ \E i, j \in 1..Len(data.sources) :
       /\ data.sources[i].addedAt = 1
       /\ data.sources[j] = ev.call.arg
       /\ data.sources[j].addedAt = 2
  /\ file = JSONstringify(data)

\* C10: a listener that throws neither keeps the later listeners from being
\* notified nor makes the mutation call fail
C10_ThrowIsolated ==
  ev.threw => (ev.notified = listeners /\ ev.outcome # "rejected")

\* C11: a listener is notified in the very step in which a mutation completes
\* (or a reload ends), so its notifications come in completion order; a
\* listener is called only after every listener subscribed before it, and
\* only while it is subscribed
C11_CompletionOrder ==
  [][\A l \in Probes :
       \/ inbox'[l] = inbox[l]
       \/ /\ \E i \in 1..Len(listeners) : listeners[i] = l
          /\ ev'.kind \in {"saved", "load"}
          /\ ev'.kind = "saved" =>
               \E i \in 1..Len(calls) :
                 calls[i].n = ev'.call.n /\ calls' = RemoveAt(calls, i)
          /\ inbox'[l] = Append(inbox[l], IF ev'.kind = "saved" THEN ev'.call.n ELSE 0)
          /\ \A i, j \in 1..Len(listeners) :
               (i < j /\ listeners[j] = l) => inbox'[listeners[i]] # inbox[listeners[i]]]_vars

\* call 2 completed before call 1 and both listeners were told of it; then
\* "l1" was unsubscribed, and the completion of call 1 reached "l2" alone
C11_Witness ==
  /\ listeners = <<"l2">>
  /\ inbox["l1"] = <<2>>
  /\ inbox["l2"] = <<2, 1>>
  /\ ev.kind = "saved" /\ ev.call.n = 1

\* C12: a write made by the store's own save() causes no reload and no
\* notification of its own: in a run in which nobody else modifies the file
\* (this specification has no external edit) load() never runs after startup
C12_OwnSaveNoReload ==
  ev.kind \notin {"load", "loadFailed"}

\* new holds, for each field of keys, the partial's value when the partial has
\* the field and prior's otherwise (no value when prior has none)
MergedAsClaimed(keys, partial, prior, new) ==
  /\ DOMAIN new \subseteq keys
  /\ \A k \in keys :
       IF k \in DOMAIN partial THEN k \in DOMAIN new /\ new[k] = partial[k]
       ELSE IF k \in DOMAIN prior THEN k \in DOMAIN new /\ new[k] = prior[k]
       ELSE k \notin DOMAIN new

\* C13: updateLayout, updateAudio, updateWindow and updateTextOverlay store, for
\* each field, the partial's value when the partial has the field (false, 0
\* and "" included) and the prior value otherwise; without a prior entry the
\* prior values of audio are {volume: 1, muted: false} and those of a window
\* {x: 0, y: 0, width: 1, height: 1}
C13_PartialMerge ==
  [][ev'.kind = "apply" =>
       CASE ev'.call.op = "updateLayout" ->
              MergedAsClaimed({"rows", "columns"}, ev'.call.arg, data.layout, data'.layout)
         [] ev'.call.op = "updateTextOverlay" ->
              MergedAsClaimed({"text", "position", "scrolling"}, ev'.call.arg,
                              data.textOverlay, data'.textOverlay)
         [] ev'.call.op = "updateAudio" ->
              /\ ev'.call.id \in DOMAIN data'.audio
              /\ MergedAsClaimed({"volume", "muted"}, ev'.call.arg,
                                 IF ev'.call.id \in DOMAIN data.audio
                                 THEN data.audio[ev'.call.id]
                                 ELSE [volume |-> 10, muted |-> FALSE],
                                 data'.audio[ev'.call.id])
         [] ev'.call.op = "updateWindow" ->
              /\ ev'.call.id \in DOMAIN data'.windows
              /\ MergedAsClaimed({"x", "y", "width", "height"}, ev'.call.arg,
                                 IF ev'.call.id \in DOMAIN data.windows
                                 THEN data.windows[ev'.call.id]
                                 ELSE [x |-> 0, y |-> 0, width |-> 1, height |-> 1],
                                 data'.windows[ev'.call.id])
         [] OTHER -> TRUE]_vars

\* updateAudio("b", {muted: true}) found no entry, and updateAudio("b",
\* {volume: 0.3}) has just been applied: the entry is {volume: 0.3, muted: true}
C13_Witness ==
  /\ AppliedNow("updateAudio")
  /\ now = 2
  /\ ev.call.arg = [volume |-> 3]
  /\ DOMAIN data.audio = {"b"}
  /\ data.audio["b"] = [volume |-> 3, muted |-> TRUE]

RECURSIVE ListedFirst(_, _, _)
\* the entries of s whose id the order lists, in the order of the list (an id
\* counts where it is listed first)
ListedFirst(order, s, seen) ==
  IF order = <<>> THEN <<>>
  ELSE IF Head(order) \in seen THEN ListedFirst(Tail(order), s, seen)
  ELSE SelectSeqBy(s, {Head(order)})
         \o ListedFirst(Tail(order), s, seen \cup {Head(order)})

\* C14: reorder(order) puts the listed sources first, in the order given, then
\* the unlisted ones in their former relative order; reorder([]) changes nothing
C14_ReorderListedFirst ==
  [][(ev'.kind = "apply" /\ ev'.call.op = "reorder") =>
       /\ data'.sources =
            ListedFirst(ev'.call.arg, data.sources, {})
              \o SelectSeqBy(data.sources,
                             IdsOf(data.sources)
                               \ {ev'.call.arg[i] : i \in 1..Len(ev'.call.arg)})
       /\ ev'.call.arg = <<>> => data'.sources = data.sources]_vars

\* reorder(["c", "a"]) has just been applied to [a, b, c, d]
C14_Witness ==
  /\ AppliedNow("reorder")
  /\ now = 1
  /\ ev.call.arg = <<"c", "a">>
  /\ Len(data.sources) = 4
  /\ [i \in 1..4 |-> data.sources[i].id] = <<"c", "a", "b", "d">>

\* C15: the value addSource returns (its payload) equals the entry that sources
\* holds for that id when the call returns
C15_ReturnsStoredEntry ==
  (ev.kind = "saved" /\ ev.outcome = "resolved" /\ ev.call.op = "addSource")
  => \E i \in 1..Len(data.sources) :
       data.sources[i].id = ev.call.id /\ data.sources[i] = ev.call.arg

\* C16: removeSource(id) with an id that sources does not hold leaves every
\* field of the Document as it was (stated for the runs in which no save() has
\* thrown)
C16_RemoveAbsentNoChange ==
  [][(ev'.kind = "apply" /\ ev'.call.op = "removeSource"
        /\ ev'.call.id \notin IdsOf(data.sources) /\ ideal # None)
     => data' = data]_vars

\* C17: a write of the holder into a snapshot leaves the Document as it was,
\* and a mutation of the Document leaves a snapshot handed out as it was
C17_SnapshotIndependent ==
  [][handed.doc # None =>
       /\ ev'.kind = "modifySnapshot" => data' = data /\ DEFAULT_CONFIG' = DEFAULT_CONFIG
       /\ ev'.kind = "apply" => handed' = handed]_vars

\* the holder pushed an entry into its snapshot's sources and the Document
\* does not show it; then addSource was applied and the snapshot does not show
\* the new source
C17_Witness ==
  /\ handed.doc # None
  /\ handed.edited
  /\ "z" \in IdsOf(handed.doc.sources)
  /\ "z" \notin IdsOf(data.sources)
  /\ AppliedNow("addSource")
  /\ ev.call.id \in IdsOf(data.sources)
  /\ ev.call.id \notin IdsOf(handed.doc.sources)

\* C18: a process that starts on the file the store saved loads a Document
\* equal to the one that was saved
C18_RoundTrip ==
  [][(phase = "new" /\ phase' = "ready" /\ ideal # None /\ file = JSONstringify(ideal))
     => data' = ideal]_vars

\* got holds a value for every field that dflt has: the one of src when src
\* has the field, the one of dflt otherwise
FilledFrom(fields, src, dflt, got) ==
  \A k \in fields :
    /\ k \in DOMAIN got
    /\ got[k] = IF k \in DOMAIN src THEN src[k] ELSE dflt[k]

\* C19: after the load of a parseable file every field of the Document, and
\* every sub-field of layout and textOverlay, has a value: the file's where the
\* file has the field, the documented default where it has not
C19_LoadFillsDefaults ==
  [][(phase = "new" /\ phase' = "ready" /\ Parseable(file)) =>
       /\ FilledFrom(DOMAIN InitialDefaults \ {"layout", "textOverlay"},
                     JSONparse(file), InitialDefaults, data')
       /\ \A k \in {"layout", "textOverlay"} :
            /\ k \in DOMAIN data'
            /\ FilledFrom(DOMAIN InitialDefaults[k],
                          Opt(JSONparse(file), k, EmptyMap), InitialDefaults[k], data'[k])]_vars

\* C20: when load() cannot read or parse the file, the Document becomes
\* exactly the hard-coded defaults, whatever was applied before
C20_LoadFailureGivesDefaults ==
  ev.kind = "loadFailed" => data = InitialDefaults

\* C21: when a connection opens, the first frame the server sends on it is one
\* `state` message carrying the Document as it is at that moment; nothing is
\* sent on a connection before it has joined clients
C21_StateOnOpen ==
  [][\A p \in Pages :
       /\ p \notin clients => wire[p] = <<>>
       /\ p \notin clients' => wire'[p] = <<>>
       /\ (p \notin clients /\ p \in clients') =>
            /\ data' = data
            /\ wire'[p] = <<[type |-> "state", data |-> data]>>]_vars

C21_Witness ==
  /\ "view" \in clients
  /\ Len(wire["view"]) >= 3
  /\ wire["view"][1].type = "state"
  /\ IdsOf(wire["view"][1].data.sources) = {"a", "b"}
  /\ wire["view"][2].type = "state"
  /\ "z" \in DOMAIN wire["view"][2].data.audio

\* the step took up a frame from a WebSocket client
FromSocket(e) == e.kind \in {"answer", "apply"} /\ e.req # None /\ e.req.via = "ws"

\* C22: a `ping` frame is answered with one `pong` on the sender's connection
\* and nothing on any other; the Document, the file, the calls in flight and
\* the pending reloads stay as they are
C22_PingPong ==
  [][(FromSocket(ev') /\ ev'.req.payload = [type |-> "ping"]) =>
       /\ wire' = [wire EXCEPT ![ev'.req.from] = Append(@, [type |-> "pong"])]
       /\ data' = data
       /\ DEFAULT_CONFIG' = DEFAULT_CONFIG
       /\ file' = file
       /\ calls' = calls
       /\ loads' = loads
       /\ clients' = clients]_vars

C22_Witness ==
  /\ FromSocket(ev)
  /\ ev.req.payload = [type |-> "ping"]
  /\ clients = Pages
  /\ Len(wire["manage"]) = 2
  /\ wire["manage"][2] = [type |-> "pong"]
  /\ Len(wire["view"]) = 1
  /\ wire["view"][1].type = "state"
  /\ calls # <<>>

\* the step ran broadcast() for the listener startServer subscribed
Broadcasting(e) ==
  e.kind \in {"saved", "load"} /\ \E i \in 1..Len(e.notified) : e.notified[i] = Broadcast

\* C23: a socket that closes leaves clients; in a broadcast, a client whose
\* send fails is taken out of clients, every other client still gets the frame,
\* and the call that caused the broadcast resolves
C23_FailedSendPruned ==
  [][/\ \A p \in Pages : (wsRef[p] # "closed" /\ wsRef'[p] = "closed") => p \notin clients'
     /\ Broadcasting(ev') =>
          /\ \A p \in clients :
               IF wsRef[p] = "broken"
               THEN p \notin clients'
               ELSE p \in clients' /\ Len(wire'[p]) > Len(wire[p])
          /\ ev'.kind = "saved" => ev'.outcome = "resolved"]_vars

\* the input errors: a required field is missing (REST, /mcp), no provider
\* recognises the URL, the RPC method is unknown, a WebSocket frame is
\* malformed or names a source id that d does not hold
InputError(req, d) ==
  CASE req.via = "ws" ->
         \/ req.payload = Garbage
         \/ "url" \in DOMAIN req.payload /\ ~Supported(req.payload.url)
         \/ "id" \in DOMAIN req.payload /\ req.payload.id \notin IdsOf(d.sources)
    [] req.via = "mcp" ->
         /\ req.body \notin {Garbage, None}
         /\ LET method == Opt(req.body, "method", "")
                params == Opt(req.body, "params", EmptyMap)
            IN \/ method \notin {"listSources", "addSource", "removeSource", "updateLayout",
                                 "updateAudio", "updateWindow"}
               \/ method = "addSource" /\ "url" \notin DOMAIN params
               \/ method = "addSource" /\ "url" \in DOMAIN params /\ ~Supported(params.url)
               \/ method \in {"removeSource", "updateAudio", "updateWindow"}
                  /\ "id" \notin DOMAIN params
    [] req.via = "rest" ->
         \/ req.path = "/api/add" /\ "url" \notin DOMAIN req.body
         \/ req.path = "/api/add" /\ "url" \in DOMAIN req.body /\ ~Supported(req.body.url)
         \/ req.path \in {"/api/remove", "/api/audio", "/api/window"}
            /\ "id" \notin DOMAIN req.body
         \/ req.path = "/api/reorder" /\ "order" \notin DOMAIN req.body
         \/ req.path = "/api/show-ids" /\ "showIds" \notin DOMAIN req.body

\* C25: the step that takes up a request that is an input error leaves the
\* Document and the file as they are, sends no frame to any client, and starts
\* no save (which would write the file and end in a broadcast)
C25_InputErrorNoEffect ==
  [][(ev'.req # None /\ InputError(ev'.req, data)) =>
       /\ data' = data
       /\ file' = file
       /\ wire' = wire
       /\ calls' = calls]_vars

\* C24: POST /mcp is answered 400 when the body is not JSON, and otherwise 200
\* with {id, result} or {id, error}
C24_McpAlways200 ==
  ev.reply # None =>
    IF ev.kind = "answer" /\ ev.req.body = Garbage
    THEN ev.reply.status = 400
    ELSE /\ ev.reply.status = 200
         /\ DOMAIN ev.reply.body.value \in {{"id", "result"}, {"id", "error"}}

\* C30: every audio entry of the Document has a volume between 0 and 1 (0 and
\* 10 tenths) and a boolean muted
C30_AudioInRange ==
  \A id \in DOMAIN data.audio :
    /\ DOMAIN data.audio[id] = {"volume", "muted"}
    /\ data.audio[id].volume \in 0..DefaultVolume
    /\ data.audio[id].muted \in BOOLEAN

\* the event message of each mutation
EventOf ==
  [addSource |-> "added", removeSource |-> "removed", updateLayout |-> "layout",
   updateAudio |-> "audio", updateWindow |-> "window", updateTextOverlay |-> "textOverlay",
   updateShowIds |-> "showIds"]

\* the step completed a REST mutation with success
RestDone(e) == e.kind = "saved" /\ e.outcome = "resolved" /\ e.reply # None

\* C26: a REST mutation that succeeds is answered 200 with the part of the
\* Document it changed (not a bare acknowledgement), and every connected client
\* is sent the full state and then the event message of that mutation
C26_RestSliceAndFanOut ==
  [][RestDone(ev') =>
       /\ ev'.reply.status = 200
       /\ "value" \in DOMAIN ev'.reply.body
       /\ ev'.reply.body.value # [ok |-> TRUE]
       /\ \A p \in clients :
            /\ Len(wire'[p]) = Len(wire[p]) + 2
            /\ SubSeq(wire'[p], 1, Len(wire[p])) = wire[p]
            /\ wire'[p][Len(wire[p]) + 1] = [type |-> "state", data |-> data]
            /\ ev'.call.op \in DOMAIN EventOf
            /\ wire'[p][Len(wire[p]) + 2].type = EventOf[ev'.call.op]]_vars

\* the step is page p taking a frame off its connection
Receives(p) ==
  wire[p] # <<>> /\ wsRef'[p] # "closed" /\ wire'[p] \in {Tail(wire[p]), <<>>}

\* C27 as stated: a page that holds a state never goes back to null
C27_NeverBlank == [][\A p \in Pages : state[p] # None => state'[p] # None]_vars

\* C27: a page that holds a state keeps one through every step but its receipt
\* of a `reload` message; a close of its connection and a failed GET leave the
\* state as it is
C27_KeepsLastKnown ==
  [][\A p \in Pages :
       /\ (state[p] # None /\ ~(Receives(p) /\ Head(wire[p]).type = "reload")) =>
            state'[p] # None
       /\ (wsRef[p] # "closed" /\ wsRef'[p] = "closed") => state'[p] = state[p]
       /\ ev'.kind = "fetchFailed" => state'[p] = state[p]]_vars

C27_Witness ==
  /\ ev.kind = "fetchFailed"
  /\ wsRef["view"] = "closed"
  /\ state["view"] # None
  /\ state["view"].textOverlay.text = "hi"
  /\ data.textOverlay.text = "hi"

\* C29: a page that receives `reload` starts over: its state is null again,
\* what it awaited is dropped, and it fetches the state and connects anew
C29_ReloadStartsOver ==
  [][\A p \in Pages :
       (Receives(p) /\ Head(wire[p]).type = "reload") =>
         /\ state'[p] = None
         /\ responses'[p] = {}
         /\ requests'[p] = 1
         /\ wsRef'[p] = "connecting"]_vars

\* C28: while the server is reachable, a page whose socket has closed is
\* connected again by its retry timer, and the server then sends it the state
\* as the first message of the new connection
C28_Reconnects ==
  \A p \in Pages :
    (Serving /\ wsRef[p] = "closed") ~>
      (/\ wsRef[p] = "open"
       /\ p \in clients
       /\ wire[p] = <<[type |-> "state", data |-> snapshot]>>)

\* a page that has a state on screen has lost its connection, its retry is pending
C28_Witness ==
  /\ Serving
  /\ wsRef["view"] = "closed"
  /\ "view" \notin clients
  /\ wire["view"] = <<>>
  /\ state["view"] # None
  /\ data.textOverlay.text = "hi"
  /\ state["view"].textOverlay.text # "hi"

\* C31: a mutation of one store instance changes nothing of the other one of
\* the process: not its Document, not the snapshot it would hand out, not what
\* its listeners were called with
C31_InstancesIndependent ==
  [][/\ (ev'.kind \in {"apply", "saved"} /\ other.phase # "none") =>
          /\ OtherData' = OtherData
          /\ other'.seen = other.seen
          /\ other'.file = other.file
     /\ ev'.kind = "otherCall" =>
          /\ data' = data
          /\ snapshot' = snapshot
          /\ inbox' = inbox
          /\ file' = file]_vars

\* the request req carries the mutation m over the transport it came by
Carries(req, m) ==
  CASE req.via = "rest" -> req.path = RestOf(m).path /\ req.body = RestOf(m).body
    [] req.via = "ws" -> req.payload = WsOf(m)
    [] req.via = "mcp" -> req.body = McpOf(m)

\* C32: a mutation arriving by REST, by WebSocket or by /mcp changes the
\* Document exactly as the call of the Mutation API with the same arguments
\* does, whatever the transport, and when its call completes every connected
\* client is sent a `state` message with the whole Document
C32_TransportEquivalence ==
  [][/\ (ev'.kind = "apply" /\ ev'.req # None) =>
          \E m \in Mutations :
            /\ Carries(ev'.req, m)
            /\ data' = Mutate(data, Direct(m, now + 1))
     /\ ev'.kind = "saved" =>
          /\ ev'.outcome = "resolved"
          /\ \A p \in clients :
               /\ Len(wire'[p]) > Len(wire[p])
               /\ wire'[p][Len(wire[p]) + 1] = [type |-> "state", data |-> data]]_vars

\* a window update that came by /mcp has completed, and both pages hold the
\* `state` message that shows it
C32_Witness ==
  /\ ev.kind = "saved"
  /\ ev.call.op = "updateWindow"
  /\ ev.reply # None
  /\ ev.reply.body.value = [id |-> 7, result |-> [x |-> 1, y |-> 0, width |-> 1, height |-> 1]]
  /\ clients = Pages
  /\ \A p \in Pages :
       /\ wire[p][Len(wire[p])].type = "state"
       /\ wire[p][Len(wire[p])].data.windows = data.windows
       /\ "b" \in DOMAIN data.windows

\* the ids of the sources whose mutations have all completed with success: id
\* is a source after the calls made so far, in call order, and no call that
\* names it is in flight
Settled ==
  {id \in IdsOf(ideal.sources) : \A i \in 1..Len(calls) : calls[i].id # id}

\* C33: with the watcher active and no save failed, a source whose addSource
\* has completed, and which no later call removed, is in the Document in memory
\* and in the file whenever the file holds a whole Document
C33_CompletedStays ==
  (phase = "ready" /\ ideal # None) =>
    \A id \in Settled :
      /\ id \in IdsOf(data.sources)
      /\ Parseable(file) => id \in IdsOf(JSONparse(file).sources)

\* C34: when no call is in flight and no reload is pending, the snapshot the
\* last emit() gave a subscribed listener equals the Document in memory
C34_ListenerUpToDate ==
  (calls = <<>> /\ loads = 0 /\ listeners = <<Keeper>> /\ handed.doc # None)
  => handed.doc = data

\* Date.now() of the last addSource that d shows: where addSource is the only
\* mutation, a Document with a smaller stamp is an older one
Stamp(d) ==
  IF d.sources = <<>> THEN 0
  ELSE CHOOSE t \in {d.sources[i].addedAt : i \in 1..Len(d.sources)} :
         \A i \in 1..Len(d.sources) : d.sources[i].addedAt <= t

\* C35: the answer of a GET /api/state never takes the place of a state that
\* is newer than the answer
C35_NoStaleOverwrite ==
  [][\A p \in Pages :
       (state[p] # None /\ responses'[p] # responses[p] /\ state'[p] # state[p]) =>
         Stamp(state'[p]) >= Stamp(state[p])]_vars

\* C36: the answer of POST /api/layout, /api/audio and /api/window, and the
\* event message sent for it, carry the layout or the entry as the request's
\* own update left it, whatever other calls are in flight
C36_OwnUpdateReturned ==
  [][\A i \in 1..Len(calls) :
       (/\ ev'.kind = "saved" /\ ev'.outcome = "resolved"
        /\ calls[i].n = ev'.call.n
        /\ calls[i].req # None /\ calls[i].req.via = "rest"
        /\ calls[i].op \in {"updateLayout", "updateAudio", "updateWindow"}) =>
         /\ "value" \in DOMAIN ev'.reply.body
         /\ ev'.reply.body = Result(calls[i], calls[i].applied)
         /\ \A p \in clients :
              wire'[p][Len(wire'[p])] = EventMessage(calls[i], calls[i].applied)]_vars

\* the sockets of page p that are open or being opened
Live(p) ==
  (IF wsRef[p] \in {"connecting", "open", "broken"} THEN 1 ELSE 0)
    + (IF stray[p] = "connecting" THEN 1 ELSE 0)

\* C37: a page has at most one socket that is open or being opened, and a
\* component that was unmounted opens no socket any more
C37_OneSocketNoneAfterUnmount ==
  \A p \in Pages :
    /\ Live(p) <= 1
    /\ stray[p] # "connecting"

\* the sockets whose open event the server has handled and whose close event
\* it has not
OpenSockets == {p \in Pages : wsRef[p] \in {"open", "broken"}}

\* C38: clients is the set of the sockets between their open event and their
\* close event: a socket joins at its open and leaves at its close, and a
\* broadcast sends to the sockets of clients and to no other
C38_ClientsAreOpenSockets ==
  [][/\ clients = OpenSockets
     /\ clients' = OpenSockets'
     /\ \A p \in Pages :
          /\ (p \notin clients /\ p \in clients') => wsRef[p] = "connecting"
          /\ (p \in clients /\ p \notin clients') => wsRef'[p] = "closed"
     /\ Broadcasting(ev') =>
          \A p \in Pages :
            IF p \in clients /\ wsRef[p] = "open"
            THEN /\ Len(wire'[p]) > Len(wire[p])
                 /\ wire'[p][Len(wire[p]) + 1].type = "state"
            ELSE wire'[p] = wire[p]]_vars

\* a broadcast has gone to the one socket that is open; the other page's socket
\* has closed and got nothing
C38_Witness ==
  /\ Broadcasting(ev)
  /\ clients = {"manage"}
  /\ wsRef["view"] = "closed"
  /\ wire["view"] = <<>>
  /\ Len(wire["manage"]) >= 3
  /\ wire["manage"][Len(wire["manage"])].type = "added"

\* t holds the entries of s, each as often as s holds it
IsPermutation(s, t) ==
  /\ Len(s) = Len(t)
  /\ \A i \in 1..Len(s) :
       Cardinality({j \in 1..Len(t) : t[j] = s[i]})
         = Cardinality({j \in 1..Len(s) : s[j] = s[i]})

\* C39: reorder leaves every field but sources as it was, and the new sources
\* hold the former entries, each once: no entry is added, dropped or doubled,
\* whatever ids the order lists and however often
C39_ReorderPermutes ==
  [][(ev'.kind = "apply" /\ ev'.call.op = "reorder") =>
       /\ IsPermutation(data.sources, data'.sources)
       /\ DOMAIN data' = DOMAIN data
       /\ \A k \in DOMAIN data \ {"sources"} : data'[k] = data[k]]_vars

\* reorder(["d", "d", "a"]) has just been applied to [a, b, c, d], with audio
\* and window entries in the Document
C39_Witness ==
  /\ AppliedNow("reorder")
  /\ ev.call.arg = <<"d", "d", "a">>
  /\ Len(data.sources) = 4
  /\ [i \in 1..4 |-> data.sources[i].id] = <<"d", "a", "b", "c">>
  /\ DOMAIN data.audio = {"a", "b"}
  /\ DOMAIN data.windows = {"c"}

\* the field of the Document each of these methods writes
FieldOf ==
  [updateLayout |-> "layout", updateTextOverlay |-> "textOverlay",
   updateShowIds |-> "showIds", updateYoutubeNoCookie |-> "youtubeNoCookie",
   updateHideCursor |-> "hideCursor", updateAudio |-> "audio", updateWindow |-> "windows"]

\* C40: updateLayout, updateTextOverlay, updateShowIds, updateYoutubeNoCookie
\* and updateHideCursor leave every field but their own as it was; updateAudio
\* and updateWindow also leave the entry of every other id in their map as it was
C40_OwnFieldOnly ==
  [][(ev'.kind = "apply" /\ ev'.call.op \in DOMAIN FieldOf) =>
       LET own == FieldOf[ev'.call.op]
       IN /\ DOMAIN data' \ {own} = DOMAIN data \ {own}
          /\ \A k \in DOMAIN data \ {own} : data'[k] = data[k]
          /\ ev'.call.op \in {"updateAudio", "updateWindow"} =>
               /\ DOMAIN data'[own] \ {ev'.call.id} = DOMAIN data[own] \ {ev'.call.id}
               /\ \A id \in DOMAIN data[own] \ {ev'.call.id} :
                    data'[own][id] = data[own][id]]_vars

\* updateAudio("b", {volume: 0.3}) has just been applied to a Document with
\* four sources, audio entries for a and b and a window for c
C40_Witness ==
  /\ AppliedNow("updateAudio")
  /\ ev.call.arg = [volume |-> 3]
  /\ Len(data.sources) = 4
  /\ DOMAIN data.audio = {"a", "b"}
  /\ data.audio["a"] = [volume |-> 5, muted |-> FALSE]
  /\ data.audio["b"] = [volume |-> 3, muted |-> TRUE]
  /\ DOMAIN data.windows = {"c"}
====
